---- MODULE Spec2Model ----
(***************************************************************************)
(* SechaLog client portal: the statistics computed by the dashboard        *)
(* (DashboardClient, ParcelleAnalysisCard, PDF export), by the deliveries  *)
(* page (LivraisonsClient) and by the chart component (D3Charts), as a     *)
(* state machine over the rows of the tables `livraisons` and `parcelles`. *)
(*                                                                         *)
(* Numbers: weights, humidity and surfaces are naturals; a quotient is an  *)
(* exact reduced fraction [num, den] (floating-point rounding is not       *)
(* modelled).  A nullable column holds Null, a nullable string NullStr,    *)
(* and a result of type `number | null` holds NullNum when it is null.     *)
(***************************************************************************)
EXTENDS Integers, Sequences, FiniteSets, TLC

\* ------------------------------------------------------------------------
\* Bounds of the model
\* ------------------------------------------------------------------------
MaxLen == 3          \* rows of table livraisons
MaxPending == 2      \* fetchFilteredData calls in flight at once
TicksPerDay == 2     \* distinct weighing times told apart within one day
MaxDay == 1          \* last calendar day of the model (days 0..MaxDay)
MaxChanges == 2      \* filter changes made by the user in one behaviour
MaxSegments == 2     \* pieces of a requested pathname after its first '/'
MaxEdits == 1        \* inline edits saved by the user in one behaviour

\* ------------------------------------------------------------------------
\* JavaScript values
\* ------------------------------------------------------------------------
Null == -1                      \* null / undefined in a numeric column
NullStr == "<null>"             \* null / undefined in a string column
NullNum == [null |-> TRUE]      \* null in a result of type number | null

\* (x || 0) on a nullable number
Or0(x) == IF x = Null THEN 0 ELSE x

\* truthiness of a string and of a number
Truthy(s) == s # NullStr /\ s # ""
TruthyNum(x) == x # Null /\ x # 0

RECURSIVE GCD(_, _)
GCD(a, b) == IF b = 0 THEN a ELSE GCD(b, a % b)

\* the quotient n / d (d > 0), exact
Frac(n, d) == LET g == GCD(n, d) IN [num |-> n \div g, den |-> d \div g]
Zero == Frac(0, 1)

\* Array.prototype.reduce((sum, x) => sum + x, 0) on a sequence of numbers
RECURSIVE SumSeq(_)
SumSeq(s) == IF s = <<>> THEN 0 ELSE Head(s) + SumSeq(Tail(s))

\* the same reduce over a set of keys, f giving the summand of each key
RECURSIVE SumOver(_, _)
SumOver(S, f) ==
  IF S = {} THEN 0
  ELSE LET k == CHOOSE x \in S : TRUE IN f[k] + SumOver(S \ {k}, f)

\* sum of (liv.poids_sec || 0) and of (liv.poids_brut || 0) over a list
SumPoidsSec(list) == SumSeq([i \in 1..Len(list) |-> Or0(list[i].poids_sec)])
SumPoidsBrut(list) == SumSeq([i \in 1..Len(list) |-> Or0(list[i].poids_brut)])

IsEntree(liv) == liv.type_operation = "entree"
IsSortie(liv) == liv.type_operation = "sortie"

\* liv.humidite !== null && liv.humidite !== undefined && liv.poids_brut
HasHumiditeAndBrut(liv) == liv.humidite # Null /\ TruthyNum(liv.poids_brut)

\* the weighted average with null when nothing can be weighed
WeightedHumiditeOrNull(list) ==
  LET totalWeightedHumidite ==
        SumSeq([i \in 1..Len(list) |-> list[i].humidite * Or0(list[i].poids_brut)])
      totalWeightForHumidite == SumPoidsBrut(list)
  IN IF totalWeightForHumidite > 0
       THEN Frac(totalWeightedHumidite, totalWeightForHumidite)
       ELSE NullNum
\* weighted average of humidite by poids_brut over a list already filtered
\* by HasHumiditeAndBrut; 0 when the total weight is not positive
WeightedHumidite(list) ==
  LET totalWeightedHumidite ==
        SumSeq([i \in 1..Len(list) |-> list[i].humidite * Or0(list[i].poids_brut)])
      totalWeightForHumidite == SumPoidsBrut(list)
  IN IF totalWeightForHumidite > 0
       THEN Frac(totalWeightedHumidite, totalWeightForHumidite)
       ELSE Zero

\* ------------------------------------------------------------------------
\* i18n: the two spellings of the 'other' sentinel
\* ------------------------------------------------------------------------
Autres == "Autres"                   \* raw spelling stored in the database
OtherLabels == {"Autres", "Others"}  \* what safeT('common.other') can give

\* ------------------------------------------------------------------------
\* The backend tables and their queries
\* ------------------------------------------------------------------------
Days == 0..MaxDay
Ticks == 0..((MaxDay + 1) * TicksPerDay - 1)

\* d3.timeDay(new Date(date_pesee)): the instant at which the day starts
TimeDay(ts) == (ts \div TicksPerDay) * TicksPerDay

\* dateDebut + 'T00:00:00.000Z' and dateFin + 'T23:59:59.999Z'
DayStart(day) == day * TicksPerDay
DayEnd(day) == day * TicksPerDay + (TicksPerDay - 1)

\* .gte('date_pesee', ...).lte('date_pesee', ...); a Null bound is no bound
InDates(liv, dateDebut, dateFin) ==
  /\ dateDebut = Null \/ liv.date_pesee >= DayStart(dateDebut)
  /\ dateFin = Null \/ liv.date_pesee <= DayEnd(dateFin)

\* .order('date_pesee', { ascending: false })
SortedDesc(list) ==
  \A i \in 1..(Len(list) - 1) : list[i].date_pesee >= list[i + 1].date_pesee

\* ------------------------------------------------------------------------
\* DashboardClient.fetchFilteredData: the stats block
\* ------------------------------------------------------------------------
\* initialParcelles.filter(p => p.surface_hectares && p.surface_hectares > 0)
ParcellesWithArea(initialParcelles) ==
  SelectSeq(initialParcelles,
            LAMBDA p : TruthyNum(p.surface_hectares) /\ p.surface_hectares > 0)

\* parcellesWithArea.reduce((sum, p) => sum + p.surface_hectares, 0)
DashSurfaceTotaleOfLast(initialParcelles) ==
  LET withArea == ParcellesWithArea(initialParcelles)
  IN IF Len(withArea) = 0 THEN 0 ELSE withArea[Len(withArea)].surface_hectares
DashSurfaceTotale(initialParcelles) ==
  LET withArea == ParcellesWithArea(initialParcelles)
  IN SumSeq([i \in 1..Len(withArea) |-> withArea[i].surface_hectares])

ParcelleNamesWithArea(initialParcelles) ==
  LET withArea == ParcellesWithArea(initialParcelles)
  IN {withArea[i].nom_parcelle : i \in 1..Len(withArea)}

\* entree deliveries whose parcelle is truthy and names a parcel with area
DashLivraisonsFromParcellesWithArea(livs, initialParcelles) ==
  SelectSeq(SelectSeq(livs, IsEntree),
            LAMBDA liv : Truthy(liv.parcelle)
                         /\ liv.parcelle \in ParcelleNamesWithArea(initialParcelles))

\* (surfaceTotale > 0 && total > 0) ? total / 1000 / surfaceTotale : null
RendementZeroWhenNone(totalPoidsSec, surface) ==
  IF surface > 0 /\ totalPoidsSec > 0
    THEN Frac(totalPoidsSec, 1000 * surface)
    ELSE Zero
Rendement(totalPoidsSec, surface) ==
  IF surface > 0 /\ totalPoidsSec > 0
    THEN Frac(totalPoidsSec, 1000 * surface)
    ELSE NullNum

DashMoyenneHumidite(livs) ==
  WeightedHumidite(SelectSeq(SelectSeq(livs, IsEntree), HasHumiditeAndBrut))

DashBalanceOfTotal(totalEntrees, totalSorties) == totalEntrees + totalSorties
DashBalance(totalEntrees, totalSorties) == totalEntrees - totalSorties

DashTotalStats(livs, initialParcelles) ==
  LET entreeLivraisons == SelectSeq(livs, IsEntree)
      totalEntrees == SumPoidsSec(SelectSeq(livs, IsEntree))
      totalSorties == SumPoidsSec(SelectSeq(livs, IsSortie))
      surfaceTotale == DashSurfaceTotale(initialParcelles)
      totalPoidsSecFromAreaParcelles ==
        SumPoidsSec(DashLivraisonsFromParcellesWithArea(livs, initialParcelles))
  IN [totalPoidsSec |-> SumPoidsSec(entreeLivraisons),
      totalEntrees |-> totalEntrees,
      totalSorties |-> totalSorties,
      balance |-> DashBalance(totalEntrees, totalSorties),
      moyenneHumidite |-> DashMoyenneHumidite(livs),
      rendementGlobal |-> Rendement(totalPoidsSecFromAreaParcelles, surfaceTotale),
      surfaceTotale |-> surfaceTotale]

\* useState initial value of totalStats
InitialTotalStats ==
  [totalPoidsSec |-> 0, totalEntrees |-> 0, totalSorties |-> 0, balance |-> 0,
   moyenneHumidite |-> Zero, rendementGlobal |-> NullNum, surfaceTotale |-> 0]

\* ------------------------------------------------------------------------
\* LivraisonsClient: query, client-side filters and the stats block
\* ------------------------------------------------------------------------
\* liv.parcelle?.toLowerCase().includes(searchTerm.toLowerCase()); the names
\* of the model differ in more than case and none contains another
Includes(s, term) == s # NullStr /\ s = term

\* supabase.from('livraisons').select('*').eq(...).gte(...).lte(...)
\* [.eq('parcelle', parcelleFilter)] [.eq('type_operation', typeFilter)]
LivQuery(db, f) ==
  SelectSeq(db, LAMBDA liv :
    /\ InDates(liv, f.dateDebut, f.dateFin)
    /\ f.parcelleFilter = "" \/ liv.parcelle = f.parcelleFilter
    /\ f.typeFilter = "" \/ liv.type_operation = f.typeFilter)

\* text search on parcelle or chauffeur, then the product filter (0 = all)
LivFilter(data, f) ==
  LET searched == IF f.searchTerm # ""
                    THEN SelectSeq(data, LAMBDA liv :
                           Includes(liv.parcelle, f.searchTerm)
                           \/ Includes(liv.chauffeur, f.searchTerm))
                    ELSE data
  IN IF f.productFilter > 0
       THEN SelectSeq(searched, LAMBDA liv : liv.produit_local_id = f.productFilter)
       ELSE searched

\* Object.keys(parcelles).length > 0
HasParcelles(parcelles) == DOMAIN parcelles # {}

\* parcelles[name]?.surface_hectares
SurfaceOf(parcelles, name) ==
  IF name \in DOMAIN parcelles THEN parcelles[name] ELSE Null

\* names of the map with a surface > 0, plus the other spelling of the
\* sentinel when one spelling is among them
LivParcelleNamesWithArea(parcelles, other) ==
  LET withArea == {name \in DOMAIN parcelles :
                     TruthyNum(parcelles[name]) /\ parcelles[name] > 0}
  IN withArea
       \cup (IF other \in withArea THEN {Autres} ELSE {})
       \cup (IF Autres \in withArea /\ Autres # other THEN {other} ELSE {})

\* Array.from(parcelleNamesWithArea).reduce((sum, name) =>
\*   sum + (parcelles[name]?.surface_hectares || 0), 0)
LivSurfaceTotale(parcelles, other) ==
  LET names == LivParcelleNamesWithArea(parcelles, other)
  IN SumOver(names, [name \in names |-> Or0(SurfaceOf(parcelles, name))])

\* every 'entree' delivery, whatever its parcel
LivLivraisonsEntrees(filtered, parcelles, other) ==
  SelectSeq(filtered, IsEntree)
LivLivraisonsFromParcellesWithArea(filtered, parcelles, other) ==
  SelectSeq(filtered, LAMBDA liv :
    /\ IsEntree(liv)
    /\ Truthy(liv.parcelle)
    /\ liv.parcelle \in LivParcelleNamesWithArea(parcelles, other))

LivRendementGlobal(filtered, parcelles, other) ==
  Rendement(SumPoidsSec(LivLivraisonsFromParcellesWithArea(filtered, parcelles, other)),
            LivSurfaceTotale(parcelles, other))

LivMoyenneHumiditeAllTypes(filtered) ==
  WeightedHumidite(SelectSeq(filtered, HasHumiditeAndBrut))
LivMoyenneHumidite(filtered) ==
  WeightedHumidite(SelectSeq(filtered,
                             LAMBDA liv : IsEntree(liv) /\ HasHumiditeAndBrut(liv)))

LivBalanceOfTotal(totalEntrees, totalSorties) == totalEntrees + totalSorties
LivBalance(totalEntrees, totalSorties) == totalEntrees - totalSorties

\* the value given to setStats by fetchFilteredData
LivStats(filtered, parcelles, other) ==
  LET totalEntrees == SumPoidsSec(SelectSeq(filtered, IsEntree))
      totalSorties == SumPoidsSec(SelectSeq(filtered, IsSortie))
  IN [totalLivraisons |-> Len(filtered),
      totalPoidsSec |-> SumPoidsSec(filtered),
      totalPoidsBrut |-> SumPoidsBrut(filtered),
      moyenneHumidite |-> LivMoyenneHumidite(filtered),
      moyenneRendement |-> IF HasParcelles(parcelles)
                             THEN LivRendementGlobal(filtered, parcelles, other)
                             ELSE NullNum,
      totalEntrees |-> totalEntrees,
      totalSorties |-> totalSorties,
      balance |-> LivBalance(totalEntrees, totalSorties)]

\* useState initial value of stats
InitialStats ==
  [totalLivraisons |-> 0, totalPoidsSec |-> 0, totalPoidsBrut |-> 0,
   moyenneHumidite |-> Zero, moyenneRendement |-> Zero,
   totalEntrees |-> 0, totalSorties |-> 0, balance |-> 0]

\* const parcelleName = liv.parcelle || 'Autres'
BucketName(liv) == IF Truthy(liv.parcelle) THEN liv.parcelle ELSE Autres

\* stats.humidite / stats.livraisons, humidite being the sum of the truthy
\* humidite values of the bucket and livraisons the size of the bucket
BucketHumidite(bucket) ==
  Frac(SumSeq([i \in 1..Len(bucket) |->
                 IF TruthyNum(bucket[i].humidite) THEN bucket[i].humidite ELSE 0]),
       Len(bucket))

\* surface && surface > 0 && poidsSecEntrees > 0
\*   ? (poidsSecEntrees / 1000) / surface : null
BucketRendement(poidsSecEntrees, surface) ==
  IF TruthyNum(surface) /\ surface > 0 /\ poidsSecEntrees > 0
    THEN Frac(poidsSecEntrees, 1000 * surface)
    ELSE NullNum

\* the value given to setStatsParcelle
LivStatsParcelle(filtered, parcelles) ==
  [parcelle \in {BucketName(filtered[i]) : i \in 1..Len(filtered)} |->
     LET bucket == SelectSeq(filtered, LAMBDA liv : BucketName(liv) = parcelle)
         poidsSecEntrees == SumPoidsSec(SelectSeq(bucket, IsEntree))
     IN [livraisons |-> Len(bucket),
         poidsSec |-> SumPoidsSec(bucket),
         poidsBrut |-> SumPoidsBrut(bucket),
         poidsSecEntrees |-> poidsSecEntrees,
         rendement |-> BucketRendement(poidsSecEntrees, SurfaceOf(parcelles, parcelle)),
         humidite |-> BucketHumidite(bucket)]]

\* calculateInitialStats: simple mean of the non-null humidite values
InitialMoyenneHumidite(filtered) ==
  LET humiditeValues == SelectSeq([i \in 1..Len(filtered) |-> filtered[i].humidite],
                                  LAMBDA h : h # Null)
  IN IF Len(humiditeValues) > 0
       THEN Frac(SumSeq(humiditeValues), Len(humiditeValues))
       ELSE Zero

\* the value given to setStats by calculateInitialStats
CalculateInitialStats(filtered, parcelles, other) ==
  [LivStats(filtered, parcelles, other) EXCEPT
     !.moyenneHumidite = InitialMoyenneHumidite(filtered),
     !.moyenneRendement = LivRendementGlobal(filtered, parcelles, other)]

\* calculateRendement(poidsSec, parcelleName) of the deliveries table rows
CalculateRendement(parcelles, poidsSec, parcelleName) ==
  LET surface == SurfaceOf(parcelles, parcelleName)
  IN IF TruthyNum(surface) /\ surface > 0
       THEN Frac(poidsSec, 1000 * surface)
       ELSE NullNum

\* ------------------------------------------------------------------------
\* ParcelleAnalysisCard.fetchParcelleStats and the PDF parcel cards
\* ------------------------------------------------------------------------
\* .eq('parcelle', parcelle.nom_parcelle) [.gte(...)] [.lte(...)]
CardQuery(db, nom_parcelle, dateDebut, dateFin) ==
  SelectSeq(db, LAMBDA liv :
    liv.parcelle = nom_parcelle /\ InDates(liv, dateDebut, dateFin))

\* livraisons.sort(by date_pesee descending)[0].date_pesee
DerniereLivraison(livs) ==
  CHOOSE d \in {livs[i].date_pesee : i \in 1..Len(livs)} :
    \A i \in 1..Len(livs) : livs[i].date_pesee <= d

\* hasSurfaceArea && totalPoidsSecEntrees > 0 && entreeLivraisons.length > 0
CardRendement(entreeLivraisons, surface_hectares) ==
  LET totalPoidsSecEntrees == SumPoidsSec(entreeLivraisons)
      hasSurfaceArea == surface_hectares # Null /\ surface_hectares > 0
  IN IF hasSurfaceArea /\ totalPoidsSecEntrees > 0 /\ Len(entreeLivraisons) > 0
       THEN Frac(totalPoidsSecEntrees, 1000 * surface_hectares)
       ELSE NullNum

\* the value given to setStats by the card: null when the query is empty
CardStats(livs, parcelle) ==
  IF Len(livs) = 0 THEN NullNum
  ELSE [totalLivraisons |-> Len(livs),
        totalPoidsSec |-> SumPoidsSec(livs),
        totalPoidsBrut |-> SumPoidsBrut(livs),
        derniereLivraison |-> DerniereLivraison(livs),
        moyenneHumidite |-> WeightedHumidite(SelectSeq(livs, HasHumiditeAndBrut)),
        rendement |-> CardRendement(SelectSeq(livs, IsEntree), parcelle.surface_hectares)]

\* exportToPDF: (parcelle.surface_hectares > 0 && totalPoidsSec > 0)
\*   ? totalPoidsSec / 1000 / parcelle.surface_hectares : null
\* where totalPoidsSec sums every delivery of the parcel
PdfRendement(parcelleLivraisons, surface_hectares) ==
  LET totalPoidsSec == SumPoidsSec(parcelleLivraisons)
  IN IF surface_hectares > 0 /\ totalPoidsSec > 0
       THEN Frac(totalPoidsSec, 1000 * surface_hectares)
       ELSE NullNum

\* one card per parcel of initialParcelles, from filteredLivraisons
PdfCards(filteredLivs, initialParcelles) ==
  [i \in 1..Len(initialParcelles) |->
     LET parcelle == initialParcelles[i]
         parcelleLivraisons ==
           SelectSeq(filteredLivs, LAMBDA liv : liv.parcelle = parcelle.nom_parcelle)
     IN [nom_parcelle |-> parcelle.nom_parcelle,
         totalLivraisons |-> Len(parcelleLivraisons),
         totalPoidsSec |-> SumPoidsSec(parcelleLivraisons),
         moyenneHumidite |->
           WeightedHumidite(SelectSeq(parcelleLivraisons, HasHumiditeAndBrut)),
         rendement |-> PdfRendement(parcelleLivraisons, parcelle.surface_hectares)]]

\* ------------------------------------------------------------------------
\* D3Charts: the data prepared by the chart effect
\* ------------------------------------------------------------------------
\* d.parcelle === 'Autres' ? safeT('common.other') : (d.parcelle || safeT(...))
ChartKey(liv, other) ==
  IF liv.parcelle = Autres THEN other
  ELSE IF Truthy(liv.parcelle) THEN liv.parcelle ELSE other

\* d3.rollup(bentreeLivraisons, v => ({poidsSec, poidsBrut, humidite, count}), key)
ParcelleData(bentreeLivraisons, other) ==
  [key \in {ChartKey(bentreeLivraisons[i], other) : i \in 1..Len(bentreeLivraisons)} |->
     LET v == SelectSeq(bentreeLivraisons, LAMBDA d : ChartKey(d, other) = key)
     IN [poidsSec |-> SumPoidsSec(v),
         poidsBrut |-> SumPoidsBrut(v),
         humidite |-> Frac(SumSeq([i \in 1..Len(v) |->
                                     IF TruthyNum(v[i].humidite) THEN v[i].humidite ELSE 0]),
                           Len(v)),
         count |-> Len(v)]]

\* the value of one day with 0 for a day without weighted humidity
DailyValueZeroHumidite(v) ==
  LET withHumidite == SelectSeq(v, HasHumiditeAndBrut)
  IN [entrees |-> SumPoidsSec(SelectSeq(v, IsEntree)),
      sorties |-> SumPoidsSec(SelectSeq(v, IsSortie)),
      humidite |-> WeightedHumidite(withHumidite)]
\* the value of one day of d3.rollup(livraisons, v => ..., d => d3.timeDay(date))
DailyValue(v) ==
  LET withHumidite == SelectSeq(v, HasHumiditeAndBrut)
      totalWeightForHumidite == SumPoidsBrut(withHumidite)
  IN [entrees |-> SumPoidsSec(SelectSeq(v, IsEntree)),
      sorties |-> SumPoidsSec(SelectSeq(v, IsSortie)),
      humidite |-> IF totalWeightForHumidite > 0
                     THEN WeightedHumidite(withHumidite)
                     ELSE NullNum]

\* the keys of the rollup: one per distinct day (InternMap keys by valueOf)
DayKeys(livs) == {TimeDay(livs[i].date_pesee) : i \in 1..Len(livs)}

\* Array.from(dailyData.entries()).sort((a, b) => a[0] - b[0])
RECURSIVE SortAscending(_)
SortAscending(S) ==
  IF S = {} THEN <<>>
  ELSE LET m == CHOOSE x \in S : \A y \in S : x <= y
       IN <<m>> \o SortAscending(S \ {m})

DailyArray(livs) ==
  LET days == SortAscending(DayKeys(livs))
  IN [i \in 1..Len(days) |->
        [date |-> days[i],
         data |-> DailyValue(SelectSeq(livs, LAMBDA d : TimeDay(d.date_pesee) = days[i]))]]

\* the same map without the running totals
RECURSIVE CumulateDaily(_, _, _)
CumulateDaily(dailyArray, cumulativeEntrees, cumulativeSorties) ==
  IF dailyArray = <<>> THEN <<>>
  ELSE LET day == Head(dailyArray)
       IN <<[date |-> day.date,
             entrees |-> day.data.entrees,
             sorties |-> day.data.sorties,
             cumulativeEntrees |-> day.data.entrees,
             cumulativeSorties |-> day.data.sorties,
             netStock |-> day.data.entrees - day.data.sorties,
             humidite |-> day.data.humidite]>>
          \o CumulateDaily(Tail(dailyArray), 0, 0)

\* dailyArray.map(...) with the two running totals
RECURSIVE Cumulate(_, _, _)
Cumulate(dailyArray, cumulativeEntrees, cumulativeSorties) ==
  IF dailyArray = <<>> THEN <<>>
  ELSE LET day == Head(dailyArray)
           cumE == cumulativeEntrees + day.data.entrees
           cumS == cumulativeSorties + day.data.sorties
       IN <<[date |-> day.date,
             entrees |-> day.data.entrees,
             sorties |-> day.data.sorties,
             cumulativeEntrees |-> cumE,
             cumulativeSorties |-> cumS,
             netStock |-> cumE - cumS,
             humidite |-> day.data.humidite]>>
          \o Cumulate(Tail(dailyArray), cumE, cumS)

\* the series with the net stock of each day alone
TimelineDataNetOfDay(livs) ==
  LET series == Cumulate(DailyArray(livs), 0, 0)
  IN [i \in 1..Len(series) |->
        [series[i] EXCEPT !.netStock = series[i].entrees - series[i].sorties]]
TimelineData(livs) == Cumulate(DailyArray(livs), 0, 0)

\* createRendementByParcelleChart: yield per chart key, zero yields dropped;
\* parcelleMap maps nom_parcelle to surface_hectares
RendementByParcelle(bentreeLivraisons, parcelleMap, other) ==
  IF DOMAIN parcelleMap = {} THEN <<>>
  ELSE LET keys == {ChartKey(bentreeLivraisons[i], other) : i \in 1..Len(bentreeLivraisons)}
           total(key) == SumPoidsSec(SelectSeq(bentreeLivraisons,
                                               LAMBDA d : ChartKey(d, other) = key))
           surface(key) == Or0(SurfaceOf(parcelleMap, key))
       IN [key \in {k \in keys : surface(k) > 0 /\ total(k) > 0} |->
             Frac(total(key), 1000 * surface(key))]

\* what the three svg elements show
NoChart == [bar |-> <<>>, line |-> <<>>, rendement |-> <<>>]

\* the chart effect on a render with a non-empty list: nothing is redrawn
\* when the list has no 'entree' delivery
D3ChartsEffect(chart, livs, parcelleMap, other) ==
  LET bentreeLivraisons == SelectSeq(livs, IsEntree)
  IN IF Len(livs) = 0 \/ Len(bentreeLivraisons) = 0 THEN chart
     ELSE [bar |-> ParcelleData(bentreeLivraisons, other),
           line |-> TimelineData(livs),
           rendement |-> RendementByParcelle(bentreeLivraisons, parcelleMap, other)]

\* <D3Charts/> is rendered only while the list is non-empty; a render of a
\* mounted chart with a new list runs the effect again
D3ChartsRender(chart, wasMounted, livs, parcelleMap, other) ==
  IF Len(livs) = 0 THEN NoChart
  ELSE D3ChartsEffect(IF wasMounted THEN chart ELSE NoChart, livs, parcelleMap, other)

\* ------------------------------------------------------------------------
\* State
\* ------------------------------------------------------------------------
VARIABLES
  otherLabel,          \* safeT('common.other', ...) under the active language
  dbParcelles,         \* rows of table parcelles of the client
  dbLivraisons,        \* rows of table livraisons of the client
  page,                \* the page that is open: "dashboard" or "livraisons"
  mounted,             \* the mount effects of the page have run
  chart,               \* what the D3Charts of the page shows
  \* DashboardClient
  dashDates,           \* dateDebut, dateFin
  filteredLivraisons,
  totalStats,
  dashComputed,        \* setTotalStats has been called
  dashPending,         \* fetchFilteredData calls awaiting their response
  cardStats,           \* stats and isLoading of each ParcelleAnalysisCard
  pdf,                 \* parcel cards written by exportToPDF
  \* LivraisonsClient
  filters,             \* dateDebut, dateFin, parcelleFilter, typeFilter, ...
  parcelles,           \* nom_parcelle -> surface_hectares
  parcellesPending,    \* fetchParcelles awaits its response
  livraisons,
  stats,
  statsParcelle,
  loading,
  pending,             \* fetchFilteredData calls awaiting their response
  livCalc,             \* the list and parcel map of the last setStats
  filterChanges,       \* filter changes and edits made so far
  \* LanguageProvider and useTranslations
  language,            \* the active language
  translated,          \* the last call of t: its arguments and its result
  storage,             \* localStorage item 'sechalog-language'
  providerLoaded,      \* the mount effect of LanguageProvider has run
  selected,            \* the last setLanguage and whether a mount followed it
  dictionaries,        \* the dictionary mapping of translations.ts
  dictionaryCache,     \* the dictionary cache of translations.ts
  got,                 \* the last call of getDictionary and its outcome
  \* inline parcel edit of LivraisonsClient
  editingRow,          \* id of the delivery in edit mode, or Null
  editingValue,        \* the text of the edit input
  updating,
  updateCalls,         \* updateParcelleInDatabase calls awaiting their response
  saved,               \* the last saveEdit that completed and the list before it
  \* the server: middleware and PATCH /api/parcelles
  served,              \* the last request seen by the router and its response
  users,               \* per user, the clients that the row policies show
  parcellesTable,      \* rows of table parcelles of every client
  patched              \* the last PATCH request, its updates and its response

dashVars == <<dashDates, filteredLivraisons, totalStats, dashComputed,
              dashPending, cardStats, pdf>>
livVars == <<filters, parcelles, parcellesPending, livraisons, stats,
             statsParcelle, loading, pending, livCalc>>
langVars == <<language, translated, storage, providerLoaded, selected,
              dictionaries, dictionaryCache, got>>
editVars == <<editingRow, editingValue, updating, updateCalls, saved>>
srvVars == <<served, users, parcellesTable, patched>>
envVars == <<otherLabel, dbParcelles, dbLivraisons, page, langVars, editVars, srvVars>>
vars == <<envVars, mounted, chart, dashVars, livVars, filterChanges>>

\* the calls issued before call k are marked: a later call has set its result
Supersede(calls, k) ==
  [i \in 1..Len(calls) |->
     IF i < k THEN [calls[i] EXCEPT !.superseded = TRUE] ELSE calls[i]]

\* the element of a list at position k removed
RemoveAt(seq, k) ==
  [i \in 1..(Len(seq) - 1) |-> IF i < k THEN seq[i] ELSE seq[i + 1]]

\* dashboard/page.tsx: every parcel of the client, active or not
InitialParcelles == dbParcelles

\* the server pages load the recent deliveries, newest first
InitialLivraisons == dbLivraisons

\* new Map(parcelleData.map(p => [p.nom_parcelle, p.surface_hectares]))
ParcelleMapOf(parcelleSeq) ==
  [name \in {parcelleSeq[i].nom_parcelle : i \in 1..Len(parcelleSeq)} |->
     LET i == CHOOSE j \in 1..Len(parcelleSeq) :
                /\ parcelleSeq[j].nom_parcelle = name
                /\ \A k \in (j + 1)..Len(parcelleSeq) : parcelleSeq[k].nom_parcelle # name
     IN parcelleSeq[i].surface_hectares]

\* ------------------------------------------------------------------------
\* DashboardClient
\* ------------------------------------------------------------------------
\* a fetchFilteredData call in flight, with the dates of the render that
\* calls it
DashCall(dates) ==
  [dateDebut |-> dates.dateDebut, dateFin |-> dates.dateFin, superseded |-> FALSE]

\* the default dates are set, which starts the first fetchFilteredData and
\* the fetch of every parcel card
DashMount ==
  /\ page = "dashboard" /\ ~mounted
  /\ mounted' = TRUE
  /\ dashDates' = [dateDebut |-> 0, dateFin |-> MaxDay]
  /\ dashPending' = Append(dashPending, DashCall(dashDates'))
  /\ chart' = D3ChartsRender(chart, FALSE, filteredLivraisons,
                             ParcelleMapOf(InitialParcelles), otherLabel)
  /\ UNCHANGED <<envVars, filterChanges, filteredLivraisons, totalStats, dashComputed,
                 cardStats, pdf, livVars>>

\* the response of a fetchFilteredData call arrives; without data (error or
\* exception) nothing is set
DashFetchFilteredData(k, ok) ==
  /\ page = "dashboard" /\ mounted
  /\ k \in 1..Len(dashPending)
  /\ dashPending' = RemoveAt(IF ok THEN Supersede(dashPending, k) ELSE dashPending, k)
  /\ IF ok
       THEN LET data == SelectSeq(dbLivraisons, LAMBDA liv :
                          InDates(liv, dashPending[k].dateDebut, dashPending[k].dateFin))
            IN /\ filteredLivraisons' = data
               /\ totalStats' = DashTotalStats(data, InitialParcelles)
               /\ dashComputed' = TRUE
               /\ chart' = D3ChartsRender(chart, Len(filteredLivraisons) > 0, data,
                                          ParcelleMapOf(InitialParcelles), otherLabel)
       ELSE UNCHANGED <<filteredLivraisons, totalStats, dashComputed, chart>>
  /\ UNCHANGED <<envVars, filterChanges, mounted, dashDates, cardStats, pdf, livVars>>

\* the card of parcel i receives its deliveries
CardFetchParcelleStats(i) ==
  /\ page = "dashboard" /\ mounted
  /\ i \in 1..Len(InitialParcelles)
  /\ cardStats[i].isLoading
  /\ cardStats' = [cardStats EXCEPT ![i] =
       [isLoading |-> FALSE,
        stats |-> CardStats(CardQuery(dbLivraisons, InitialParcelles[i].nom_parcelle,
                                      dashDates.dateDebut, dashDates.dateFin),
                            InitialParcelles[i])]]
  /\ UNCHANGED <<envVars, filterChanges, mounted, chart, dashDates, filteredLivraisons,
                 totalStats, dashComputed, dashPending, pdf, livVars>>

\* the PDF button: the parcel cards are computed from filteredLivraisons
ExportToPDF ==
  /\ page = "dashboard" /\ mounted
  /\ pdf' = [exported |-> TRUE,
             of |-> filteredLivraisons,
             cards |-> PdfCards(filteredLivraisons, InitialParcelles)]
  /\ UNCHANGED <<envVars, filterChanges, mounted, chart, dashDates, filteredLivraisons,
                 totalStats, dashComputed, dashPending, cardStats, livVars>>

\* ------------------------------------------------------------------------
\* LivraisonsClient
\* ------------------------------------------------------------------------
\* the product filter after mount: 1 (corn), or the first product of the
\* initial deliveries when they hold no delivery of product 1
DefaultProductFilter(initialLivs) ==
  LET used == {initialLivs[i].produit_local_id : i \in 1..Len(initialLivs)} \cap 1..6
      first == CHOOSE i \in 1..Len(initialLivs) :
                 /\ initialLivs[i].produit_local_id \in used
                 /\ \A j \in 1..(i - 1) : initialLivs[j].produit_local_id \notin used
  IN IF Len(initialLivs) = 0 \/ 1 \in used THEN 1
     ELSE IF used = {} THEN 0
     ELSE initialLivs[first].produit_local_id

\* parcelleMap of fetchParcelles: both spellings of the sentinel without
\* surface, then the active parcels of the client (data null on error)
ParcelleMap(db, withData, other) ==
  LET rows == IF withData
                THEN SelectSeq(db, LAMBDA p : p.actif /\ Truthy(p.nom_parcelle))
                ELSE <<>>
      fetched == ParcelleMapOf(rows)
  IN [name \in {Autres, other} \cup DOMAIN fetched |->
        IF name \in DOMAIN fetched THEN fetched[name] ELSE Null]

\* the parcelles prop given to <D3Charts/>: surface_hectares || 0
ChartParcelles(parcelleMap) ==
  [name \in DOMAIN parcelleMap |-> Or0(parcelleMap[name])]

\* the start of fetchFilteredData: setLoading(true) and the query is sent,
\* with the filters and the parcel map of the render that calls it
StartFetch(f, parcelleMap) ==
  /\ loading' = TRUE
  /\ pending' = Append(pending, [filters |-> f, parcelles |-> parcelleMap,
                                superseded |-> FALSE])

\* the default dates and the product filter are set, fetchParcelles is
\* called, and the auto-fetch effect starts the first fetchFilteredData
LivMount ==
  /\ page = "livraisons" /\ ~mounted
  /\ mounted' = TRUE
  /\ filters' = [filters EXCEPT !.dateDebut = 0, !.dateFin = MaxDay,
                                !.productFilter = DefaultProductFilter(InitialLivraisons)]
  /\ parcellesPending' = TRUE
  /\ StartFetch(filters', parcelles)
  /\ chart' = D3ChartsRender(chart, FALSE, livraisons, ChartParcelles(parcelles), otherLabel)
  /\ UNCHANGED <<envVars, filterChanges, dashVars, parcelles, livraisons, stats, statsParcelle, livCalc>>

\* the response of fetchParcelles: "ok", "error" (data null) or "throw";
\* a new parcel map runs calculateInitialStats and the auto-fetch effect
FetchParcelles(outcome) ==
  /\ page = "livraisons" /\ mounted /\ parcellesPending
  /\ parcellesPending' = FALSE
  /\ IF outcome = "throw"
       THEN UNCHANGED <<parcelles, stats, statsParcelle, livCalc, loading, pending, chart>>
       ELSE /\ parcelles' = ParcelleMap(dbParcelles, outcome = "ok", otherLabel)
            /\ IF Len(InitialLivraisons) > 0
                 THEN /\ stats' = CalculateInitialStats(InitialLivraisons, parcelles', otherLabel)
                      /\ statsParcelle' = LivStatsParcelle(InitialLivraisons, parcelles')
                      /\ livCalc' = [by |-> "initial", list |-> InitialLivraisons,
                                     parcelles |-> parcelles']
                 ELSE UNCHANGED <<stats, statsParcelle, livCalc>>
            /\ StartFetch(filters, parcelles')
            /\ chart' = D3ChartsRender(chart, Len(livraisons) > 0, livraisons,
                                       ChartParcelles(parcelles'), otherLabel)
  /\ UNCHANGED <<envVars, filterChanges, mounted, dashVars, filters, livraisons>>

\* the Refresh button, disabled while loading
Refresh ==
  /\ page = "livraisons" /\ mounted
  /\ ~loading
  /\ Len(pending) < MaxPending
  /\ StartFetch(filters, parcelles)
  /\ UNCHANGED <<envVars, filterChanges, mounted, chart, dashVars, filters, parcelles,
                 parcellesPending, livraisons, stats, statsParcelle, livCalc>>

\* the response of a fetchFilteredData call arrives: with data the list,
\* the stats and the per-parcel stats are set; in every case loading ends
FetchFilteredData(k, ok) ==
  /\ page = "livraisons" /\ mounted
  /\ k \in 1..Len(pending)
  /\ pending' = RemoveAt(IF ok THEN Supersede(pending, k) ELSE pending, k)
  /\ loading' = FALSE
  /\ IF ok
       THEN LET call == pending[k]
                filtered == LivFilter(LivQuery(dbLivraisons, call.filters), call.filters)
            IN /\ livraisons' = filtered
               /\ stats' = LivStats(filtered, call.parcelles, otherLabel)
               /\ statsParcelle' = LivStatsParcelle(filtered, call.parcelles)
               /\ livCalc' = [by |-> "fetch", list |-> filtered,
                              parcelles |-> call.parcelles]
               /\ chart' = D3ChartsRender(chart, Len(livraisons) > 0, filtered,
                                          ChartParcelles(parcelles), otherLabel)
       ELSE UNCHANGED <<livraisons, stats, statsParcelle, livCalc, chart>>
  /\ UNCHANGED <<envVars, filterChanges, mounted, dashVars, filters, parcelles, parcellesPending>>

\* ------------------------------------------------------------------------
\* The filter controls of the two pages
\* ------------------------------------------------------------------------
\* the user may change a filter while the bounds allow another call
MayChange(calls) == filterChanges < MaxChanges /\ Len(calls) < MaxPending

\* a change of the dashboard dates: the date effect calls fetchFilteredData
\* and every parcel card whose date strings changed fetches again
DashDatesChanged(dates) ==
  /\ page = "dashboard" /\ mounted
  /\ MayChange(dashPending)
  /\ filterChanges' = filterChanges + 1
  /\ dashDates' = dates
  /\ dashPending' = Append(dashPending, DashCall(dates))
  /\ cardStats' = IF dates = dashDates THEN cardStats
                  ELSE [i \in 1..Len(cardStats) |-> [cardStats[i] EXCEPT !.isLoading = TRUE]]
  /\ UNCHANGED <<envVars, mounted, chart, filteredLivraisons, totalStats,
                 dashComputed, pdf, livVars>>

\* the start date picker (maxDate = dateFin)
DashSetDateDebut(date) ==
  /\ date <= dashDates.dateFin
  /\ DashDatesChanged([dashDates EXCEPT !.dateDebut = date])

\* the end date picker (minDate = dateDebut)
DashSetDateFin(date) ==
  /\ date >= dashDates.dateDebut
  /\ DashDatesChanged([dashDates EXCEPT !.dateFin = date])

\* the reset button: the default dates
DashResetDates ==
  DashDatesChanged([dateDebut |-> 0, dateFin |-> MaxDay])

\* the Refresh button of the dashboard
DashRefresh ==
  /\ page = "dashboard" /\ mounted
  /\ Len(dashPending) < MaxPending
  /\ dashPending' = Append(dashPending, DashCall(dashDates))
  /\ UNCHANGED <<envVars, filterChanges, mounted, chart, dashDates, filteredLivraisons,
                 totalStats, dashComputed, cardStats, pdf, livVars>>

\* a change of the filters of the deliveries page: the auto-fetch effect
\* calls fetchFilteredData with the new filters
FiltersChanged(f) ==
  /\ page = "livraisons" /\ mounted
  /\ MayChange(pending)
  /\ filterChanges' = filterChanges + 1
  /\ filters' = f
  /\ StartFetch(f, parcelles)
  /\ UNCHANGED <<envVars, mounted, chart, dashVars, parcelles, parcellesPending,
                 livraisons, stats, statsParcelle, livCalc>>

SetDateDebut(date) ==
  /\ date <= filters.dateFin
  /\ FiltersChanged([filters EXCEPT !.dateDebut = date])

SetDateFin(date) ==
  /\ date >= filters.dateDebut
  /\ FiltersChanged([filters EXCEPT !.dateFin = date])

\* the select and text inputs: a value equal to the state changes nothing
SetParcelleFilter(value) ==
  /\ value # filters.parcelleFilter
  /\ FiltersChanged([filters EXCEPT !.parcelleFilter = value])

SetTypeFilter(value) ==
  /\ value # filters.typeFilter
  /\ FiltersChanged([filters EXCEPT !.typeFilter = value])

SetProductFilter(id) ==
  /\ id # filters.productFilter
  /\ FiltersChanged([filters EXCEPT !.productFilter = id])

SetSearchTerm(value) ==
  /\ value # filters.searchTerm
  /\ FiltersChanged([filters EXCEPT !.searchTerm = value])

\* the reset button: default dates, no parcel, type or search filter
ResetFilters ==
  FiltersChanged([filters EXCEPT !.dateDebut = 0, !.dateFin = MaxDay,
                                 !.parcelleFilter = "", !.typeFilter = "",
                                 !.searchTerm = ""])
\* ------------------------------------------------------------------------
\* Translations: getDictionary, getTranslation and the t of useTranslations
\* ------------------------------------------------------------------------
\* JavaScript values: a string is a sequence of characters (a word without
\* dot stands for its characters, "." is the dot), an object maps keys to
\* values, and undefined
Str(chars) == [kind |-> "string", chars |-> chars]
Obj(entries) == [kind |-> "object", entries |-> entries]
Undefined == [kind |-> "undefined"]
Dot == "."

\* the values that || and ! take as true: objects and non-empty strings
TruthyValue(v) == v.kind = "object" \/ (v.kind = "string" /\ v.chars # <<>>)

\* path.split('.')
RECURSIVE Split(_)
Split(chars) ==
  IF \A i \in 1..Len(chars) : chars[i] # Dot THEN <<chars>>
  ELSE LET i == CHOOSE j \in 1..Len(chars) :
                  chars[j] = Dot /\ \A k \in 1..(j - 1) : chars[k] # Dot
       IN <<SubSeq(chars, 1, i - 1)>> \o Split(SubSeq(chars, i + 1, Len(chars)))

\* obj?.[key]: a key of an object, undefined on undefined, and undefined on
\* a string (no key of the model is a property of strings)
GetKey(obj, key) ==
  IF obj.kind = "object" /\ key \in DOMAIN obj.entries THEN obj.entries[key] ELSE Undefined

\* keys.reduce((obj, key) => obj?.[key], dictionary)
RECURSIVE Reduce(_, _)
Reduce(keys, obj) ==
  IF keys = <<>> THEN obj ELSE Reduce(Tail(keys), GetKey(obj, Head(keys)))

\* the dictionaries of the four languages
Languages == {"fr", "en", "de", "als"}
Dictionaries ==
  [lang \in Languages |->
     CASE lang = "fr" ->
            Obj((<<"common">> :> Obj((<<"save">> :> Str(<<"Enregistrer">>))
                                     @@ (<<"other">> :> Str(<<"Autres">>))
                                     @@ (<<"empty">> :> Str(<<>>))))
                @@ (<<"title">> :> Str(<<"Sechalog">>))
                @@ (<<"echo">> :> Str(<<"echo">>)))
       [] lang = "en" ->
            Obj((<<"common">> :> Obj((<<"save">> :> Str(<<"Save">>))
                                     @@ (<<"other">> :> Str(<<"Others">>))))
                @@ (<<"title">> :> Str(<<"Sechalog">>)))
       [] lang = "de" ->
            Obj(<<"common">> :> Obj(<<"save">> :> Str(<<"Speichern">>)))
       [] OTHER ->
            Obj(<<"title">> :> Str(<<"Sechalog">>))]

\* the language codes a call can carry: the four of type Language and one
\* that is no key of the dictionary mapping
LanguageCodes == Languages \cup {"es"}

\* the cache when the module is loaded: no entry
EmptyCache == [lang \in LanguageCodes |-> Undefined]

\* the try block of getDictionary: the cached dictionary, or the one of the
\* mapping, which is then cached; raised when the mapping has none
LoadDictionary(dicts, cache, lang) ==
  IF TruthyValue(cache[lang])
    THEN [raised |-> FALSE, value |-> cache[lang], cache |-> cache]
    ELSE IF TruthyValue(dicts[lang])
      THEN [raised |-> FALSE, value |-> dicts[lang],
            cache |-> [cache EXCEPT ![lang] = dicts[lang]]]
      ELSE [raised |-> TRUE, value |-> Undefined, cache |-> cache]

\* getDictionary without its catch block
GetDictionaryNoFallback(dicts, cache, lang) ==
  LoadDictionary(dicts, cache, lang)
\* getDictionary(lang): the catch block calls getDictionary('fr') for a
\* language other than 'fr' and raises again for 'fr'
GetDictionary(dicts, cache, lang) ==
  LET loaded == LoadDictionary(dicts, cache, lang)
  IN IF loaded.raised /\ lang # "fr" THEN LoadDictionary(dicts, cache, "fr")
     ELSE loaded

\* the reduce without the fallback to the path
GetTranslationOrUndefined(dictionary, path) ==
  Reduce(Split(path.chars), dictionary)
\* path.split('.').reduce((obj, key) => obj?.[key], dictionary) || path
GetTranslation(dictionary, path) ==
  LET value == Reduce(Split(path.chars), dictionary)
  IN IF TruthyValue(value) THEN value ELSE path

\* fallback || path
FallbackOrPath(fallback, path) == IF TruthyValue(fallback) THEN fallback ELSE path

\* the dictionary of useTranslations: null when getDictionary raised
UseTranslations(dicts, cache, lang) ==
  LET loaded == GetDictionary(dicts, cache, lang)
  IN [dictionary |-> IF loaded.raised THEN Undefined ELSE loaded.value,
      cache |-> loaded.cache]

\* t(path, fallback) of useTranslations
T(dictionary, path, fallback) ==
  LET translation == GetTranslation(dictionary, path)
  IN IF ~TruthyValue(dictionary) THEN FallbackOrPath(fallback, path)
     ELSE IF translation # path THEN translation ELSE FallbackOrPath(fallback, path)

\* the values localStorage can hold for the key: none, the available
\* languages, and values that are no available language
StorageValues == {NullStr, "", "es", "FR"} \cup Languages

\* a fresh mount of LanguageProvider: useState('fr'); after a reload of the
\* page the module of the dictionaries is loaded again
ProviderMount(reload) ==
  /\ language' = "fr"
  /\ providerLoaded' = FALSE
  /\ selected' = [selected EXCEPT !.remounted = TRUE]
  /\ dictionaryCache' = IF reload THEN EmptyCache ELSE dictionaryCache
  /\ UNCHANGED <<otherLabel, dbParcelles, dbLivraisons, page, translated, storage,
                 dictionaries, got, editVars, srvVars,
                 mounted, chart, dashVars, livVars, filterChanges>>

\* the mount effect without the read of the saved language
ProviderEffectKeepsDefault ==
  /\ ~providerLoaded
  /\ providerLoaded' = TRUE
  /\ UNCHANGED <<otherLabel, dbParcelles, dbLivraisons, page, language, translated,
                 storage, selected, dictionaries, dictionaryCache, got,
                 editVars, srvVars,
                 mounted, chart, dashVars, livVars, filterChanges>>
\* the mount effect of LanguageProvider: the saved language when it is an
\* available one
ProviderEffect ==
  /\ ~providerLoaded
  /\ providerLoaded' = TRUE
  /\ language' = IF Truthy(storage) /\ storage \in Languages THEN storage ELSE language
  /\ UNCHANGED <<otherLabel, dbParcelles, dbLivraisons, page, translated, storage,
                 selected, dictionaries, dictionaryCache, got,
                 editVars, srvVars,
                 mounted, chart, dashVars, livVars, filterChanges>>

\* setLanguage(lang), from the language switcher of a mounted provider
SetLanguage(lang) ==
  /\ providerLoaded
  /\ language' = lang
  /\ storage' = lang
  /\ selected' = [lang |-> lang, remounted |-> FALSE]
  /\ UNCHANGED <<otherLabel, dbParcelles, dbLivraisons, page, translated,
                 providerLoaded, dictionaries, dictionaryCache, got,
                 editVars, srvVars,
                 mounted, chart, dashVars, livVars, filterChanges>>

\* a component renders with useTranslations and calls t(path, fallback)
\* under the active language
Translate(path, fallback) ==
  LET use == UseTranslations(dictionaries, dictionaryCache, language)
  IN /\ translated' = [called |-> TRUE, language |-> language,
                       dictionary |-> use.dictionary, path |-> path,
                       fallback |-> fallback,
                       result |-> T(use.dictionary, path, fallback)]
     /\ dictionaryCache' = use.cache
     /\ UNCHANGED <<otherLabel, dbParcelles, dbLivraisons, page, language, storage,
                    providerLoaded, selected, dictionaries, got,
                    editVars, srvVars,
                 mounted, chart, dashVars, livVars, filterChanges>>

\* a call of getDictionary(lang)
CallGetDictionary(lang) ==
  LET loaded == GetDictionary(dictionaries, dictionaryCache, lang)
  IN /\ got' = [called |-> TRUE, lang |-> lang, raised |-> loaded.raised,
                value |-> loaded.value,
                cached |-> TruthyValue(dictionaryCache[lang]),
                before |-> dictionaryCache]
     /\ dictionaryCache' = loaded.cache
     /\ UNCHANGED <<otherLabel, dbParcelles, dbLivraisons, page, language, translated,
                    storage, providerLoaded, selected, dictionaries,
                    editVars, srvVars,
                 mounted, chart, dashVars, livVars, filterChanges>>

\* the paths and fallbacks given to t
Paths ==
  {Str(<<"common", Dot, "save">>), Str(<<"common", Dot, "other">>),
   Str(<<"common", Dot, "missing">>), Str(<<"common", Dot, "empty">>),
   Str(<<"common", Dot, "save", Dot, "more">>), Str(<<"missing">>),
   Str(<<"missing", Dot, "nested">>), Str(<<"title">>), Str(<<"echo">>),
   Str(<<"common">>), Str(<<"common", Dot>>)}
Fallbacks == {Undefined, Str(<<>>), Str(<<"Fallback">>)}

\* the provider, its language switcher and the components that translate
NextTranslations ==
  \/ \E reload \in BOOLEAN : ProviderMount(reload)
  \/ ProviderEffect
  \/ \E lang \in Languages : SetLanguage(lang)
  \/ \E path \in Paths, fallback \in Fallbacks : Translate(path, fallback)

\* the calls of getDictionary, with every language code
NextDictionaries ==
  \E lang \in LanguageCodes : CallGetDictionary(lang)
\* ------------------------------------------------------------------------
\* middleware.ts: the routing of a request by its session
\* ------------------------------------------------------------------------
\* a pathname is '/' followed by at most MaxSegments pieces; a piece stands
\* for its characters
PathPieces == {"login", "register", "forgot-password", "reset-password",
               "dashboard", "_next/static", "favicon.ico", "/"}
Pathnames ==
  {<<"/">> \o rest : rest \in UNION {[1..n -> PathPieces] : n \in 0..MaxSegments}}

\* config.matcher '/((?!_next/static|_next/image|favicon.ico).*)': every
\* pathname that does not go on with one of the three after its first '/'
Matcher(pathname) ==
  ~(Len(pathname) >= 2 /\ pathname[2] \in {"_next/static", "_next/image", "favicon.ico"})

PublicPaths == {<<"/">>, <<"/", "login">>, <<"/", "register">>,
                <<"/", "forgot-password">>, <<"/", "reset-password">>}

NextResponse == [kind |-> "next"]
Redirect(pathname) == [kind |-> "redirect", to |-> pathname]

\* the middleware without its two redirects
MiddlewarePassThrough(pathname, session) ==
  NextResponse
\* middleware(req): the response for the pathname and the session
Middleware(pathname, session) ==
  IF session /\ pathname = <<"/">> THEN Redirect(<<"/", "dashboard">>)
  ELSE IF ~session /\ pathname \notin PublicPaths THEN Redirect(<<"/", "login">>)
  ELSE NextResponse

\* a request for a pathname of the matcher goes through the middleware
MiddlewareRequest(pathname, session) ==
  /\ Matcher(pathname)
  /\ served' = [called |-> TRUE, pathname |-> pathname, session |-> session,
                matched |-> TRUE, response |-> Middleware(pathname, session)]
  /\ UNCHANGED <<otherLabel, dbParcelles, dbLivraisons, page, langVars, editVars,
                 users, parcellesTable, patched,
                 mounted, chart, dashVars, livVars, filterChanges>>

\* a request for any other pathname is served without the middleware
UnmatchedRequest(pathname, session) ==
  /\ ~Matcher(pathname)
  /\ served' = [called |-> TRUE, pathname |-> pathname, session |-> session,
                matched |-> FALSE, response |-> NextResponse]
  /\ UNCHANGED <<otherLabel, dbParcelles, dbLivraisons, page, langVars, editVars,
                 users, parcellesTable, patched,
                 mounted, chart, dashVars, livVars, filterChanges>>

NextMiddleware ==
  \/ \E pathname \in Pathnames, session \in BOOLEAN : MiddlewareRequest(pathname, session)
  \/ \E pathname \in Pathnames, session \in BOOLEAN : UnmatchedRequest(pathname, session)
\* ------------------------------------------------------------------------
\* PATCH /api/parcelles: the parcels of a client saved from the profile page
\* ------------------------------------------------------------------------
\* the users of the sessions and the local ids of the clients
UserIds == {1, 2}
ClientLocalIds == {1, 2}

\* the parcels a request body can carry: id, name and surface
ParcelEdits == [id : {1, 2}, nom_parcelle : {"East"}, surface_hectares : {5}]

\* the request bodies: one that does not parse, and the parcelles and the
\* clientLocalId sent by saveParcelles
Malformed == [parses |-> FALSE]
PatchBodies ==
  {Malformed}
    \cup [parses : {TRUE}, clientLocalId : ClientLocalIds,
          parcelles : {<<p>> : p \in ParcelEdits}
                        \cup {<<p, q>> : p \in ParcelEdits, q \in ParcelEdits}]

\* the update of one parcel with the condition on its id only
UpdateParcelleById(table, parcelle, clientLocalId) ==
  [i \in 1..Len(table) |->
     IF table[i].id = parcelle.id
       THEN [table[i] EXCEPT !.nom_parcelle = parcelle.nom_parcelle,
                             !.surface_hectares = parcelle.surface_hectares,
                             !.actif = TRUE, !.modified = TRUE]
       ELSE table[i]]
\* .update({nom_parcelle, surface_hectares, actif: true, last_modified})
\*   .eq('id', parcelle.id).eq('client_local_id', clientLocalId)
UpdateParcelle(table, parcelle, clientLocalId) ==
  [i \in 1..Len(table) |->
     IF table[i].id = parcelle.id /\ table[i].client_local_id = clientLocalId
       THEN [table[i] EXCEPT !.nom_parcelle = parcelle.nom_parcelle,
                             !.surface_hectares = parcelle.surface_hectares,
                             !.actif = TRUE, !.modified = TRUE]
       ELSE table[i]]

\* the loop over the parcelles of the body: the update number failAt
\* returns an error, which ends the loop with status 500 (0: none does)
RECURSIVE UpdateEach(_, _, _, _)
UpdateEach(table, list, clientLocalId, failAt) ==
  IF list = <<>> THEN [status |-> 200, table |-> table, issued |-> 0]
  ELSE IF failAt = 1 THEN [status |-> 500, table |-> table, issued |-> 1]
  ELSE LET rest == UpdateEach(UpdateParcelle(table, Head(list), clientLocalId),
                              Tail(list), clientLocalId, failAt - 1)
       IN [rest EXCEPT !.issued = @ + 1]

\* the clients lookup .eq('local_id', clientLocalId).single() under the row
\* policies of the user: a row, or none (also when the lookup fails)
ClientFound(visible, user, clientLocalId, lookupFails) ==
  ~lookupFails /\ clientLocalId \in visible[user]

\* PATCH(request): the status of the response, the table after the request
\* and the number of updates issued
PatchResult(table, visible, configured, body, user, lookupFails, failAt) ==
  IF ~body.parses THEN [status |-> 500, table |-> table, issued |-> 0]
  ELSE IF ~configured THEN [status |-> 500, table |-> table, issued |-> 0]
  ELSE IF user = Null THEN [status |-> 401, table |-> table, issued |-> 0]
  ELSE IF ~ClientFound(visible, user, body.clientLocalId, lookupFails)
    THEN [status |-> 403, table |-> table, issued |-> 0]
  ELSE UpdateEach(table, body.parcelles, body.clientLocalId, failAt)

\* a PATCH request is handled
Patch(configured, body, user, lookupFails, failAt) ==
  LET result == PatchResult(parcellesTable, users, configured, body, user,
                            lookupFails, failAt)
  IN /\ parcellesTable' = result.table
     /\ patched' = [called |-> TRUE, configured |-> configured, body |-> body,
                    user |-> user,
                    clientFound |-> /\ body.parses /\ configured /\ user # Null
                                    /\ ClientFound(users, user, body.clientLocalId,
                                                   lookupFails),
                    status |-> result.status, issued |-> result.issued,
                    before |-> parcellesTable]
     /\ UNCHANGED <<otherLabel, dbParcelles, dbLivraisons, page, langVars, editVars,
                    served, users, mounted, chart, dashVars, livVars, filterChanges>>

NextPatch ==
  \E configured \in BOOLEAN, body \in PatchBodies, user \in UserIds \cup {Null},
     lookupFails \in BOOLEAN, failAt \in {0, 1, 2} :
    Patch(configured, body, user, lookupFails, failAt)
\* ------------------------------------------------------------------------
\* Initial states: the tables, the language and the page that is opened
\* ------------------------------------------------------------------------
\* rows of table livraisons with the given values of each column
LivRows(types, secs, bruts, humidites, names, dates) ==
  [id : {0}, type_operation : types, poids_sec : secs, poids_brut : bruts,
   humidite : humidites, parcelle : names, date_pesee : dates,
   produit_local_id : {1}, chauffeur : {NullStr}, annulee : {FALSE}]

\* the same rows voided (annulee = true)
Voided(rows) == {[r EXCEPT !.annulee = TRUE] : r \in rows}
\* the tables of at most MaxLen of these rows, newest first, id = position
LivTables(rows) ==
  {[i \in 1..Len(t) |-> [t[i] EXCEPT !.id = i]] :
     t \in {u \in UNION {[1..n -> rows] : n \in 0..MaxLen} : SortedDesc(u)}}

\* the tables of parcels: each name absent, or present with one of its
\* surfaces and active or not
ParcelTables(names, surfaces) ==
  LET choices == {c \in [1..Len(names) -> [present : BOOLEAN,
                                           surface_hectares : UNION {surfaces[i] : i \in 1..Len(names)},
                                           actif : BOOLEAN]] :
                    \A i \in 1..Len(names) :
                      IF c[i].present
                        THEN c[i].surface_hectares \in surfaces[i]
                        ELSE c[i].actif /\ \A x \in surfaces[i] : c[i].surface_hectares <= x}
      Build(c) ==
        LET kept == SelectSeq([i \in 1..Len(names) |-> i], LAMBDA i : c[i].present)
        IN [j \in 1..Len(kept) |->
              [id |-> j, nom_parcelle |-> names[kept[j]],
               surface_hectares |-> c[kept[j]].surface_hectares,
               actif |-> c[kept[j]].actif]]
  IN {Build(c) : c \in choices}

InitialFilters ==
  [dateDebut |-> Null, dateFin |-> Null, parcelleFilter |-> "", typeFilter |-> "",
   productFilter |-> 1, searchTerm |-> ""]

\* the dictionary mapping with the dictionaries of the given languages; a
\* language of type Language without dictionary maps to undefined
MappingOf(langs) ==
  [lang \in LanguageCodes |-> IF lang \in langs THEN Dictionaries[lang] ELSE Undefined]

\* LanguageProvider before its first effect, over the given storage values
\* and dictionary mappings
InitLanguage(storageValues, mappings) ==
  /\ language = "fr"
  /\ translated = [called |-> FALSE]
  /\ storage \in storageValues
  /\ providerLoaded = FALSE
  /\ selected = [lang |-> NullStr, remounted |-> FALSE]
  /\ dictionaries \in mappings
  /\ dictionaryCache = EmptyCache
  /\ got = [called |-> FALSE]

InitPages(labels, parcelTables, livTables) ==
  /\ otherLabel \in labels
  /\ dbParcelles \in parcelTables
  /\ dbLivraisons \in livTables
  /\ page \in {"dashboard", "livraisons"}
  /\ mounted = FALSE
  /\ chart = NoChart
  /\ dashDates = [dateDebut |-> Null, dateFin |-> Null]
  /\ filteredLivraisons = InitialLivraisons
  /\ totalStats = InitialTotalStats
  /\ dashComputed = FALSE
  /\ dashPending = <<>>
  /\ cardStats = [i \in 1..Len(InitialParcelles) |-> [isLoading |-> TRUE, stats |-> NullNum]]
  /\ pdf = [exported |-> FALSE, of |-> <<>>, cards |-> <<>>]
  /\ filters = InitialFilters
  /\ parcelles = <<>>
  /\ parcellesPending = FALSE
  /\ livraisons = InitialLivraisons
  /\ stats = InitialStats
  /\ statsParcelle = <<>>
  /\ loading = FALSE
  /\ pending = <<>>
  /\ livCalc = [by |-> "none", list |-> <<>>, parcelles |-> <<>>]
  /\ filterChanges = 0
  /\ editingRow = Null
  /\ editingValue = <<>>
  /\ updating = FALSE
  /\ updateCalls = <<>>
  /\ saved = [called |-> FALSE]

\* the server before its first request, over the given users and tables
\* of parcels
InitServer(userSets, tables) ==
  /\ served = [called |-> FALSE]
  /\ users \in userSets
  /\ parcellesTable \in tables
  /\ patched = [called |-> FALSE]

InitWith(labels, parcelTables, livTables) ==
  /\ InitPages(labels, parcelTables, livTables)
  /\ InitLanguage({NullStr}, {MappingOf(Languages)})
  /\ InitServer({<<>>}, {<<>>})

Next ==
  \/ DashMount
  \/ \E k \in 1..MaxPending, ok \in BOOLEAN : DashFetchFilteredData(k, ok)
  \/ \E i \in 1..Len(dbParcelles) : CardFetchParcelleStats(i)
  \/ ExportToPDF
  \/ LivMount
  \/ \E outcome \in {"ok", "error", "throw"} : FetchParcelles(outcome)
  \/ Refresh
  \/ \E k \in 1..MaxPending, ok \in BOOLEAN : FetchFilteredData(k, ok)


\* the operations of Next and the filter controls
NextFilters ==
  \/ Next
  \/ \E date \in Days : DashSetDateDebut(date)
  \/ \E date \in Days : DashSetDateFin(date)
  \/ DashResetDates
  \/ DashRefresh
  \/ \E date \in Days : SetDateDebut(date)
  \/ \E date \in Days : SetDateFin(date)
  \/ \E value \in {"", "North"} : SetParcelleFilter(value)
  \/ \E value \in {"", "sortie"} : SetTypeFilter(value)
  \/ \E id \in {0, 1} : SetProductFilter(id)
  \/ \E value \in {"", "North"} : SetSearchTerm(value)
  \/ ResetFilters
\* ------------------------------------------------------------------------
\* LivraisonsClient: the inline edit of the parcel of a delivery
\* ------------------------------------------------------------------------
\* the text of the edit input is a sequence of pieces: " " is white space
\* and every other piece stands for the characters of one name
Space == " "
EditValues == {<<Space>>, <<Space, "South", Space>>}

\* editingValue.trim()
RECURSIVE Trim(_)
Trim(value) ==
  IF value = <<>> THEN <<>>
  ELSE IF Head(value) = Space THEN Trim(Tail(value))
  ELSE IF value[Len(value)] = Space THEN Trim(SubSeq(value, 1, Len(value) - 1))
  ELSE value

\* the string of a trimmed text of at most one name
Text(trimmed) == IF trimmed = <<>> THEN "" ELSE Head(trimmed)

\* currentParcelle || '' as the text of the input
InputOf(currentParcelle) == IF Truthy(currentParcelle) THEN <<currentParcelle>> ELSE <<>>

\* the trimmed value without the default name
TrimmedValue(value) ==
  Text(Trim(value))
\* trimmedValue || 'Autres'
TrimmedOrAutres(value) ==
  IF Truthy(Text(Trim(value))) THEN Text(Trim(value)) ELSE Autres

\* the parcelle of every delivery is set
WithParcelleOfAll(list, livraisonId, newParcelle) ==
  [i \in 1..Len(list) |-> [list[i] EXCEPT !.parcelle = newParcelle]]
\* prev.map(liv => liv.id === livraisonId ? { ...liv, parcelle: newParcelle } : liv)
WithParcelle(list, livraisonId, newParcelle) ==
  [i \in 1..Len(list) |->
     IF list[i].id = livraisonId THEN [list[i] EXCEPT !.parcelle = newParcelle]
     ELSE list[i]]

\* the row in edit mode is one of the rows shown
EditingShown == \E i \in 1..Len(livraisons) : livraisons[i].id = editingRow

\* startEditing(livraison.id, livraison.parcelle) of a row shown
StartEditing(i) ==
  /\ page = "livraisons" /\ mounted
  /\ i \in 1..Len(livraisons)
  /\ editingRow' = livraisons[i].id
  /\ editingValue' = InputOf(livraisons[i].parcelle)
  /\ UNCHANGED <<otherLabel, dbParcelles, dbLivraisons, page, langVars, srvVars,
                 updating, updateCalls, saved,
                 mounted, chart, dashVars, livVars, filterChanges>>

\* onChange of the edit input, disabled while updating
SetEditingValue(value) ==
  /\ page = "livraisons" /\ mounted
  /\ EditingShown /\ ~updating
  /\ editingValue' = value
  /\ UNCHANGED <<otherLabel, dbParcelles, dbLivraisons, page, langVars, srvVars,
                 editingRow, updating, updateCalls, saved,
                 mounted, chart, dashVars, livVars, filterChanges>>

\* cancelEditing, from its button or the Escape key, disabled while updating
CancelEditing ==
  /\ page = "livraisons" /\ mounted
  /\ EditingShown /\ ~updating
  /\ editingRow' = Null
  /\ editingValue' = <<>>
  /\ UNCHANGED <<otherLabel, dbParcelles, dbLivraisons, page, langVars, srvVars,
                 updating, updateCalls, saved,
                 mounted, chart, dashVars, livVars, filterChanges>>

\* saveEdit(livraison.id) up to the await of updateParcelleInDatabase:
\* setUpdating(true) and the update is sent; the call keeps the filters and
\* the parcel map of the render that made it
SaveEdit ==
  /\ page = "livraisons" /\ mounted
  /\ EditingShown /\ ~updating
  /\ filterChanges < MaxEdits
  /\ filterChanges' = filterChanges + 1
  /\ updating' = TRUE
  /\ updateCalls' = Append(updateCalls,
                           [livraisonId |-> editingRow,
                            newParcelle |-> TrimmedOrAutres(editingValue),
                            filters |-> filters, parcelles |-> parcelles])
  /\ UNCHANGED <<otherLabel, dbParcelles, dbLivraisons, page, langVars, srvVars,
                 editingRow, editingValue, saved,
                 mounted, chart, dashVars, livVars>>

\* the response of the update arrives and saveEdit runs to its end.
\* "ok": the row is updated in the table and in the local list, the stats
\* are fetched again and edit mode is left; "error": the update returns an
\* error; "throw": the request fails. In every case updating ends.
UpdateParcelleInDatabase(outcome) ==
  /\ page = "livraisons" /\ mounted
  /\ updateCalls # <<>>
  /\ LET call == Head(updateCalls)
     IN /\ updateCalls' = Tail(updateCalls)
        /\ updating' = FALSE
        /\ saved' = [called |-> TRUE, success |-> (outcome = "ok"),
                     livraisonId |-> call.livraisonId, newParcelle |-> call.newParcelle,
                     before |-> livraisons]
        /\ dbLivraisons' = IF outcome = "ok"
                             THEN WithParcelle(dbLivraisons, call.livraisonId, call.newParcelle)
                             ELSE dbLivraisons
        /\ IF outcome = "ok"
             THEN /\ livraisons' = WithParcelle(livraisons, call.livraisonId, call.newParcelle)
                  /\ IF call.filters.dateDebut # Null /\ call.filters.dateFin # Null
                       THEN /\ Len(pending) < MaxPending
                            /\ StartFetch(call.filters, call.parcelles)
                       ELSE UNCHANGED <<loading, pending>>
                  /\ editingRow' = Null
                  /\ editingValue' = <<>>
                  /\ chart' = D3ChartsRender(chart, Len(livraisons) > 0, livraisons',
                                             ChartParcelles(parcelles), otherLabel)
             ELSE UNCHANGED <<livraisons, loading, pending, editingRow, editingValue, chart>>
  /\ UNCHANGED <<otherLabel, dbParcelles, page, langVars, srvVars,
                 mounted, dashVars, filters, parcelles, parcellesPending,
                 stats, statsParcelle, livCalc, filterChanges>>

\* the operations of the deliveries page with its inline edit
NextEdits ==
  \/ LivMount
  \/ \E outcome \in {"ok", "error", "throw"} : FetchParcelles(outcome)
  \/ Refresh
  \/ \E k \in 1..MaxPending, ok \in BOOLEAN : FetchFilteredData(k, ok)
  \/ \E i \in 1..MaxLen : StartEditing(i)
  \/ \E value \in EditValues : SetEditingValue(value)
  \/ CancelEditing
  \/ SaveEdit
  \/ \E outcome \in {"ok", "error", "throw"} : UpdateParcelleInDatabase(outcome)
\* ------------------------------------------------------------------------
\* Specifications: the same program over different families of tables
\* ------------------------------------------------------------------------
Types == {"entree", "sortie"}
OneParcel == {<<[id |-> 1, nom_parcelle |-> "North", surface_hectares |-> 2, actif |-> TRUE]>>}

\* totals: dry weights and operation types vary
InitTotals ==
  InitWith({"Autres"}, OneParcel,
           LivTables(LivRows(Types, {Null, 0, 400, 1000}, {100}, {Null}, {"North"}, {0})))
SpecTotals == InitTotals /\ [][Next]_vars

\* weighted humidity: gross weights, humidities and operation types vary
InitHumidite ==
  InitWith({"Autres"}, OneParcel,
           LivTables(LivRows({"entree"}, {400}, {Null, 100}, {Null, 10}, {"North"}, {0})
                     \cup LivRows({"entree"}, {400}, {300}, {20}, {"North"}, {0})
                     \cup LivRows({"entree"}, {400}, {0}, {10}, {"North"}, {0})
                     \cup LivRows({"entree"}, {400}, {100}, {0}, {"North"}, {0})
                     \cup LivRows({"sortie"}, {400}, {300}, {Null, 20}, {"North"}, {0})))
SpecHumidite == InitHumidite /\ [][Next]_vars

\* yield: parcels, their surfaces and the parcel of each delivery vary
InitYield ==
  InitWith({"Autres"},
           ParcelTables(<<"North", "South">>, <<{Null, 0, 2}, {3}>>),
           LivTables(LivRows({"entree"}, {Null, 1000}, {100}, {Null}, {"North"}, {0})
                     \cup LivRows({"entree"}, {400}, {100}, {Null}, {"South"}, {0})
                     \cup LivRows({"sortie"}, {400}, {100}, {Null}, {"North"}, {0})))
SpecYield == InitYield /\ [][Next]_vars

\* per-parcel humidity: the parcel and the humidity of each delivery vary
InitBuckets ==
  InitWith({"Autres"}, OneParcel,
           LivTables(LivRows({"entree"}, {1000}, {100}, {Null, 0, 10, 20},
                             {"North", NullStr}, {0})))
SpecBuckets == InitBuckets /\ [][Next]_vars

\* the 'other' sentinel: its spellings in the deliveries, the language and
\* a parcel 'Autres' of the client vary
InitSentinel ==
  InitWith(OtherLabels,
           ParcelTables(<<"Autres">>, <<{2}>>),
           LivTables(LivRows({"entree"}, {1000}, {100}, {Null},
                             {NullStr, "", "Autres", "Others"}, {0})))
SpecSentinel == InitSentinel /\ [][Next]_vars

\* charts: the weighing time, the operation type and the dry weight vary
InitCharts ==
  InitWith({"Autres"}, OneParcel,
           LivTables(LivRows({"entree"}, {Null, 400}, {100}, {Null}, {"North"}, Ticks)
                     \cup LivRows({"sortie"}, {1000}, {100}, {Null}, {"North"}, Ticks)))
SpecCharts == InitCharts /\ [][Next]_vars

\* charts: gross weights and humidities vary on each day
InitDaily ==
  InitWith({"Autres"}, OneParcel,
           LivTables(LivRows({"entree"}, {400}, {Null, 0, 100}, {10}, {"North"},
                             {DayStart(d) : d \in Days})
                     \cup LivRows({"entree"}, {400}, {100}, {Null, 0}, {"North"},
                                  {DayStart(d) : d \in Days})
                     \cup LivRows({"sortie"}, {400}, {300}, {20}, {"North"},
                                  {DayStart(d) : d \in Days})))
SpecDaily == InitDaily /\ [][Next]_vars

\* filters: an entry of North on the last day and an exit of South on the
\* first, each present or not, under every sequence of filter changes
InitFilters ==
  InitWith({"Autres"}, OneParcel,
           {t \in LivTables(LivRows({"entree"}, {1000}, {100}, {10}, {"North"}, {DayStart(MaxDay)})
                            \cup LivRows({"sortie"}, {400}, {100}, {Null}, {"South"}, {0})) :
              \A i \in 1..(Len(t) - 1) : t[i].type_operation # t[i + 1].type_operation})
SpecFilters == InitFilters /\ [][NextFilters]_vars

\* voided deliveries: each delivery is voided or not
InitVoided ==
  InitWith({"Autres"}, OneParcel,
           LET rows == LivRows(Types, {1000}, {100}, {10}, {"North"}, {0})
           IN LivTables(rows \cup Voided(rows)))
SpecVoided == InitVoided /\ [][Next]_vars

\* missing fields: deliveries without dry weight, gross weight, humidity or
\* parcel, or naming a parcel that the client does not have
InitMissing ==
  InitWith({"Autres"}, OneParcel,
           LivTables(LivRows({"entree"}, {1000}, {100}, {20}, {"North"}, {0})
                     \cup LivRows({"entree"}, {Null}, {Null}, {Null}, {NullStr}, {0})
                     \cup LivRows({"entree"}, {Null}, {100}, {20}, {"North"}, {0})
                     \cup LivRows({"entree"}, {1000}, {Null}, {20}, {NullStr}, {0})
                     \cup LivRows({"entree"}, {1000}, {100}, {Null}, {"North", "Ghost"}, {0})))
SpecMissing == InitMissing /\ [][Next]_vars

\* the worked example: an entry of North (dry 1000, gross 1100, humidity
\* 18) on the first day and an exit of North (dry 400, gross 420, no
\* humidity) on the second, each present any number of times
InitExample ==
  InitWith(OtherLabels, OneParcel,
           LivTables(LivRows({"entree"}, {1000}, {1100}, {18}, {"North"}, {0})
                     \cup LivRows({"sortie"}, {400}, {420}, {Null}, {"North"}, {DayStart(1)})))
SpecExample == InitExample /\ [][Next]_vars

\* translations: every path and fallback under every language
InitTranslations ==
  /\ InitPages({"Autres"}, OneParcel, {<<>>})
  /\ InitLanguage(StorageValues, {MappingOf(Languages)})
  /\ InitServer({<<>>}, {<<>>})
SpecTranslations == InitTranslations /\ [][NextTranslations]_vars

\* getDictionary over every mapping: each dictionary is there or missing
InitDictionaries ==
  /\ InitPages({"Autres"}, OneParcel, {<<>>})
  /\ InitLanguage({NullStr}, {MappingOf(langs) : langs \in SUBSET Languages})
  /\ InitServer({<<>>}, {<<>>})
SpecDictionaries == InitDictionaries /\ [][NextDictionaries]_vars

\* the router: every pathname with and without session
InitMiddleware == InitWith({"Autres"}, OneParcel, {<<>>})
SpecMiddleware == InitMiddleware /\ [][NextMiddleware]_vars

\* the deliveries page with its inline edit: tables of at most two rows
InitEdits ==
  /\ page = "livraisons"
  /\ InitWith({"Autres"}, OneParcel,
              {t \in LivTables(LivRows({"entree"}, {1000}, {100}, {10}, {"North"}, {DayStart(MaxDay)})
                               \cup LivRows({"sortie"}, {400}, {100}, {Null}, {"South"}, {0})) :
                 Len(t) \in 1..2})
SpecEdits == InitEdits /\ [][NextEdits]_vars

\* PATCH /api/parcelles: two parcels, each of one of the two clients, and
\* users who see their own client, or one user who sees both
InitPatch ==
  /\ InitPages({"Autres"}, OneParcel, {<<>>})
  /\ InitLanguage({NullStr}, {MappingOf(Languages)})
  /\ InitServer({[u \in UserIds |-> {u}], [u \in UserIds |-> IF u = 1 THEN ClientLocalIds ELSE {}]},
                {[i \in 1..2 |-> [id |-> i, client_local_id |-> owner[i],
                                  nom_parcelle |-> "North", surface_hectares |-> 2,
                                  actif |-> FALSE, modified |-> FALSE]] :
                   owner \in [1..2 -> ClientLocalIds]})
SpecPatch == InitPatch /\ [][NextPatch]_vars

\* ------------------------------------------------------------------------
\* Properties
\* ------------------------------------------------------------------------
\* positions of a list that satisfy P
Where(list, P(_)) == {i \in 1..Len(list) : P(list[i])}

\* sum of column col (null as 0) over a set of positions of a list
ColumnSum(list, col, positions) ==
  SumOver(positions, [i \in positions |->
                        IF list[i][col] = Null THEN 0 ELSE list[i][col]])

EntreesOf(list) == ColumnSum(list, "poids_sec", Where(list, IsEntree))
SortiesOf(list) == ColumnSum(list, "poids_sec", Where(list, IsSortie))

\* a quotient q equals n / d
IsQuotient(q, n, d) == q # NullNum /\ q.den > 0 /\ q.num * d = n * q.den

\* C1: on the dashboard and on the deliveries page, once stats have been
\* computed from a list, totalEntrees is the sum of the dry weights (null as
\* 0) of its 'entree' deliveries, totalSorties that of its 'sortie'
\* deliveries, and balance is exactly totalEntrees - totalSorties.
BalanceIsEntreesMinusSorties ==
  /\ dashComputed =>
       /\ totalStats.totalEntrees = EntreesOf(filteredLivraisons)
       /\ totalStats.totalSorties = SortiesOf(filteredLivraisons)
       /\ totalStats.balance = EntreesOf(filteredLivraisons) - SortiesOf(filteredLivraisons)
  /\ livCalc.by # "none" =>
       /\ stats.totalEntrees = EntreesOf(livCalc.list)
       /\ stats.totalSorties = SortiesOf(livCalc.list)
       /\ stats.balance = EntreesOf(livCalc.list) - SortiesOf(livCalc.list)

\* a dashboard whose list holds entries, larger exits and a null dry weight
BalanceWitness ==
  /\ dashComputed
  /\ totalStats.totalEntrees > 0
  /\ totalStats.totalSorties > totalStats.totalEntrees
  /\ \E i \in 1..Len(filteredLivraisons) : filteredLivraisons[i].poids_sec = Null

\* the weighted humidity of the deliveries at the given positions
IsWeightedHumidite(q, list, positions) ==
  LET weighted == SumOver(positions,
                          [i \in positions |-> list[i].humidite * list[i].poids_brut])
      weight == ColumnSum(list, "poids_brut", positions)
  IN IF weight > 0 THEN IsQuotient(q, weighted, weight) ELSE q = Zero

HasBoth(liv) == liv.humidite # Null /\ liv.poids_brut # Null

\* C2 as stated: the weighted average humidity computed by fetchFilteredData
\* is taken over every delivery that has a humidity and a gross weight,
\* whatever its operation type.
HumiditeOverAllTypes ==
  /\ dashComputed =>
       IsWeightedHumidite(totalStats.moyenneHumidite, filteredLivraisons,
                          Where(filteredLivraisons, HasBoth))
  /\ livCalc.by = "fetch" =>
       IsWeightedHumidite(stats.moyenneHumidite, livCalc.list,
                          Where(livCalc.list, HasBoth))

\* C2 amended: the weighted average humidity computed by fetchFilteredData
\* is sum(humidity * gross) / sum(gross) over the 'entree' deliveries that
\* have a humidity and a gross weight, and 0 when their gross weights sum
\* to 0; 'sortie' deliveries never take part.
HumiditeOverEntrees ==
  /\ dashComputed =>
       IsWeightedHumidite(totalStats.moyenneHumidite, filteredLivraisons,
                          Where(filteredLivraisons, LAMBDA liv : IsEntree(liv) /\ HasBoth(liv)))
  /\ livCalc.by = "fetch" =>
       IsWeightedHumidite(stats.moyenneHumidite, livCalc.list,
                          Where(livCalc.list, LAMBDA liv : IsEntree(liv) /\ HasBoth(liv)))

\* entries {10, 100} and {20, 300} give 17.5 beside an exit with humidity
HumiditeWitness ==
  /\ livCalc.by = "fetch"
  /\ stats.moyenneHumidite = [num |-> 35, den |-> 2]
  /\ \E i \in 1..Len(livCalc.list) : IsSortie(livCalc.list[i]) /\ HasBoth(livCalc.list[i])

\* the yield r of dry weight x (kg) on surface s (ha): x / 1000 / s when
\* both are positive, null otherwise
IsYield(r, x, s) ==
  IF s > 0 /\ x > 0 THEN IsQuotient(r, x, 1000 * s) ELSE r = NullNum

\* dashboard: the parcels of the page that have a surface > 0
DashWithSurface ==
  {i \in 1..Len(dbParcelles) :
     dbParcelles[i].surface_hectares # Null /\ dbParcelles[i].surface_hectares > 0}
DashEntreesOfParcels(list, rows) ==
  ColumnSum(list, "poids_sec",
            {i \in 1..Len(list) :
               IsEntree(list[i]) /\ \E j \in rows : dbParcelles[j].nom_parcelle = list[i].parcelle})
SurfaceOfRows(rows) ==
  SumOver(rows, [j \in rows |-> dbParcelles[j].surface_hectares])

\* deliveries page: the names of a parcel map that have a surface > 0; a
\* delivery names one of them directly or by the other spelling of the sentinel
MapWithSurface(map) == {n \in DOMAIN map : map[n] # Null /\ map[n] > 0}
SameParcel(a, b) == a = b \/ ({a, b} \subseteq {Autres, otherLabel})
MapEntreesOfParcels(list, map) ==
  ColumnSum(list, "poids_sec",
            {i \in 1..Len(list) :
               /\ IsEntree(list[i])
               /\ \E n \in MapWithSurface(map) : SameParcel(list[i].parcelle, n)})
SurfaceOfMap(map) ==
  SumOver(MapWithSurface(map), [n \in MapWithSurface(map) |-> map[n]])

ActiveWithSurface ==
  {i \in DashWithSurface : dbParcelles[i].actif}
QualifyingAreActiveWithSurface ==
  /\ dashComputed =>
       /\ totalStats.surfaceTotale = SurfaceOfRows(ActiveWithSurface)
       /\ IsYield(totalStats.rendementGlobal,
                  DashEntreesOfParcels(filteredLivraisons, ActiveWithSurface),
                  SurfaceOfRows(ActiveWithSurface))
  /\ (livCalc.by # "none" /\ livCalc.parcelles = ParcelleMap(dbParcelles, TRUE, otherLabel)) =>
       IsYield(stats.moyenneRendement,
               DashEntreesOfParcels(livCalc.list, ActiveWithSurface),
               SurfaceOfRows(ActiveWithSurface))

OfParcel(list, name) == {i \in 1..Len(list) : list[i].parcelle = name}
EntreesAt(list, positions) ==
  ColumnSum(list, "poids_sec", {i \in positions : IsEntree(list[i])})

\* C7 as stated: in the per-parcel breakdown of the deliveries page, in
\* the dashboard parcel cards and in the PDF parcel cards, the yield of a
\* parcel is (dry weight of its 'entree' deliveries) / 1000 / surface, null
\* when the surface is missing or 0 or that sum is 0; 'sortie' deliveries
\* never contribute.
ParcelYieldFromEntreesOnly ==
  /\ livCalc.by # "none" =>
       \A parcelle \in DOMAIN statsParcelle :
         IsYield(statsParcelle[parcelle].rendement,
                 EntreesAt(livCalc.list,
                           {i \in 1..Len(livCalc.list) : BucketName(livCalc.list[i]) = parcelle}),
                 SurfaceOf(livCalc.parcelles, parcelle))
  /\ \A i \in 1..Len(dbParcelles) :
       (~cardStats[i].isLoading /\ cardStats[i].stats # NullNum) =>
         IsYield(cardStats[i].stats.rendement,
                 EntreesAt(dbLivraisons, OfParcel(dbLivraisons, dbParcelles[i].nom_parcelle)),
                 dbParcelles[i].surface_hectares)
  /\ pdf.exported =>
       \A i \in 1..Len(dbParcelles) :
         IsYield(pdf.cards[i].rendement,
                 EntreesAt(pdf.of, OfParcel(pdf.of, dbParcelles[i].nom_parcelle)),
                 dbParcelles[i].surface_hectares)

\* C6 as stated: the humidity of each bucket of statsParcelle is the sum
\* of the non-null humidity values of the bucket divided by the number of
\* deliveries of the bucket that have a non-null humidity.
BucketHumiditeIsMeanOfNonNull ==
  livCalc.by # "none" =>
    \A parcelle \in DOMAIN statsParcelle :
      LET withHumidite == {i \in 1..Len(livCalc.list) :
                             /\ BucketName(livCalc.list[i]) = parcelle
                             /\ livCalc.list[i].humidite # Null}
      IN IF withHumidite = {}
           THEN statsParcelle[parcelle].humidite = Zero
           ELSE IsQuotient(statsParcelle[parcelle].humidite,
                           ColumnSum(livCalc.list, "humidite", withHumidite),
                           Cardinality(withHumidite))

\* C8 as stated: deliveries without parcel, with the raw spelling 'Autres'
\* or with the localized spelling of the sentinel share one bucket of
\* statsParcelle and one key of the bar chart, and both spellings give the
\* same surface in the yield lookups of the deliveries page.
SentinelSpellings == {Autres, otherLabel}
SentinelSpellingsMerge ==
  /\ livCalc.by # "none" =>
       /\ Cardinality(DOMAIN statsParcelle \cap SentinelSpellings) <= 1
       /\ \A i \in 1..Len(livCalc.list) :
            ~Truthy(livCalc.list[i].parcelle) =>
              BucketName(livCalc.list[i]) \in SentinelSpellings
  /\ Cardinality(DOMAIN chart.bar \cap SentinelSpellings) <= 1
  /\ HasParcelles(parcelles) =>
       SurfaceOf(parcelles, Autres) = SurfaceOf(parcelles, otherLabel)

\* the list given to <D3Charts/> by the page that is open
ChartList == IF page = "dashboard" THEN filteredLivraisons ELSE livraisons
CalendarDay(ts) == ts \div TicksPerDay

\* C9 as stated: for every non-empty list the series of the stock chart has
\* exactly one point per distinct calendar day of the list, in strictly
\* ascending date order, lists with only 'sortie' deliveries included.
OnePointPerDay ==
  (mounted /\ ChartList # <<>>) =>
    /\ {CalendarDay(chart.line[i].date) : i \in 1..Len(chart.line)}
         = {CalendarDay(ChartList[i].date_pesee) : i \in 1..Len(ChartList)}
    /\ \A i \in 1..(Len(chart.line) - 1) :
         CalendarDay(chart.line[i].date) < CalendarDay(chart.line[i + 1].date)

\* C10: in the series of the stock chart, cumulativeEntrees and
\* cumulativeSorties never decrease from one point to the next.
CumulativeNonDecreasing ==
  \A i \in 1..(Len(chart.line) - 1) :
    /\ chart.line[i].cumulativeEntrees <= chart.line[i + 1].cumulativeEntrees
    /\ chart.line[i].cumulativeSorties <= chart.line[i + 1].cumulativeSorties

\* two days: the second has fewer entries and fewer exits than the first,
\* and a delivery of the list has no dry weight
CumulativeWitness ==
  /\ Len(chart.line) = 2
  /\ chart.line[2].entrees < chart.line[1].entrees
  /\ chart.line[2].sorties < chart.line[1].sorties
  /\ chart.line[2].cumulativeEntrees = chart.line[1].cumulativeEntrees
  /\ \E i \in 1..Len(ChartList) : ChartList[i].poids_sec = Null

\* the deliveries of a list weighed on a calendar day
OfDay(list, day) == {i \in 1..Len(list) : CalendarDay(list[i].date_pesee) = day}
HasEntree(list) == \E i \in 1..Len(list) : IsEntree(list[i])

\* C11: at every point of the series of the stock chart, cumulativeEntrees
\* is the sum of the daily entrees of the points up to and including it,
\* cumulativeSorties the same sum of the daily sorties, and netStock is
\* cumulativeEntrees - cumulativeSorties; the daily entrees and sorties are
\* the dry weights of the day's 'entree' and 'sortie' deliveries.
RunningTotalsAreSums ==
  /\ \A i \in 1..Len(chart.line) :
       /\ chart.line[i].cumulativeEntrees
            = SumOver(1..i, [j \in 1..i |-> chart.line[j].entrees])
       /\ chart.line[i].cumulativeSorties
            = SumOver(1..i, [j \in 1..i |-> chart.line[j].sorties])
       /\ chart.line[i].netStock
            = chart.line[i].cumulativeEntrees - chart.line[i].cumulativeSorties
  /\ (mounted /\ HasEntree(ChartList)) =>
       \A i \in 1..Len(chart.line) :
         LET day == OfDay(ChartList, CalendarDay(chart.line[i].date))
         IN /\ chart.line[i].entrees = EntreesAt(ChartList, day)
            /\ chart.line[i].sorties
                 = ColumnSum(ChartList, "poids_sec", {j \in day : IsSortie(ChartList[j])})

\* two days with entries of 400 each and an exit of 1000 on the second:
\* the totals are 800 and 1000 and the net stock is negative
RunningTotalsWitness ==
  /\ Len(chart.line) = 2
  /\ chart.line[1].entrees = 400 /\ chart.line[2].entrees = 400
  /\ chart.line[2].cumulativeEntrees = 800
  /\ chart.line[2].cumulativeSorties = 1000
  /\ chart.line[2].netStock = -200

\* a delivery has a humidity and a gross weight that can weigh it
HasHumiditeAndWeight(liv) ==
  liv.humidite # Null /\ liv.poids_brut # Null /\ liv.poids_brut > 0

\* C12: the humidity of each point of the series is the gross-weight
\* weighted average over the deliveries of that day, of either type, that
\* have a humidity and a gross weight, and it is null, not 0, exactly when
\* no delivery of that day has both.
DailyHumiditeIsWeightedOrNull ==
  (mounted /\ HasEntree(ChartList)) =>
    \A i \in 1..Len(chart.line) :
      LET withBoth == {j \in OfDay(ChartList, CalendarDay(chart.line[i].date)) :
                         HasHumiditeAndWeight(ChartList[j])}
      IN IF withBoth = {}
           THEN chart.line[i].humidite = NullNum
           ELSE IsQuotient(chart.line[i].humidite,
                           SumOver(withBoth, [j \in withBoth |->
                                     ChartList[j].humidite * ChartList[j].poids_brut]),
                           ColumnSum(ChartList, "poids_brut", withBoth))

\* a day whose only delivery has a humidity without gross weight (null),
\* then a day with an entry {10, 100} and an exit {20, 300} (17.5)
DailyHumiditeWitness ==
  /\ Len(chart.line) = 2
  /\ chart.line[1].humidite = NullNum
  /\ \E j \in OfDay(ChartList, CalendarDay(chart.line[1].date)) :
       ChartList[j].humidite # Null
  /\ chart.line[2].humidite = [num |-> 35, den |-> 2]

\* C13: fetchFilteredData on an empty list sets count 0, dry and gross
\* weight 0, entries 0, exits 0, balance 0, weighted humidity 0, global
\* yield null and an empty per-parcel breakdown, and a page whose list is
\* empty shows no chart series.
EmptyListGivesZeros ==
  /\ (dashComputed /\ filteredLivraisons = <<>>) =>
       /\ totalStats.totalPoidsSec = 0
       /\ totalStats.totalEntrees = 0 /\ totalStats.totalSorties = 0
       /\ totalStats.balance = 0
       /\ totalStats.moyenneHumidite = Zero
       /\ totalStats.rendementGlobal = NullNum
  /\ (livCalc.by = "fetch" /\ livCalc.list = <<>>) =>
       /\ stats.totalLivraisons = 0
       /\ stats.totalPoidsSec = 0 /\ stats.totalPoidsBrut = 0
       /\ stats.totalEntrees = 0 /\ stats.totalSorties = 0
       /\ stats.balance = 0
       /\ stats.moyenneHumidite = Zero
       /\ stats.moyenneRendement = NullNum
       /\ DOMAIN statsParcelle = {}
  /\ (mounted /\ ChartList = <<>>) => chart.line = <<>>

\* the filters leave no delivery of a table that has some, after stats of a
\* non-empty list were shown, and the parcels with surface are known
EmptyListWitness ==
  /\ livCalc.by = "fetch" /\ livCalc.list = <<>>
  /\ livraisons = <<>>
  /\ dbLivraisons # <<>>
  /\ SurfaceOfMap(livCalc.parcelles) > 0
  /\ filterChanges > 0
  /\ stats.moyenneRendement = NullNum

\* the parcels given to <D3Charts/> by the page that is open
ChartParcellesOfPage ==
  IF page = "dashboard" THEN ParcelleMapOf(InitialParcelles) ELSE ChartParcelles(parcelles)

\* C18 as stated: what is shown is what a computation from scratch gives
\* for the list and the parcel data it was computed from, whatever was held
\* before: the stats, the per-parcel breakdown and the chart of the list.
RecomputationFromScratch ==
  /\ dashComputed => totalStats = DashTotalStats(filteredLivraisons, InitialParcelles)
  /\ livCalc.by = "fetch" =>
       /\ stats = LivStats(livCalc.list, livCalc.parcelles, otherLabel)
       /\ statsParcelle = LivStatsParcelle(livCalc.list, livCalc.parcelles)
  /\ (mounted /\ ChartList # <<>>) =>
       chart = D3ChartsEffect(NoChart, ChartList, ChartParcellesOfPage, otherLabel)

\* C19 as stated: the response of a fetchFilteredData call never sets its
\* result once the response of a call issued after it has set its own, on
\* the dashboard and on the deliveries page.
EarlierNeverOverwritesLater ==
  [][\A k \in 1..MaxPending :
       /\ FetchFilteredData(k, TRUE) => ~pending[k].superseded
       /\ DashFetchFilteredData(k, TRUE) => ~dashPending[k].superseded]_vars

\* positions of a list whose delivery is not voided
NotVoided(list) == {i \in 1..Len(list) : ~list[i].annulee}

WithoutSurface(list, map) ==
  {i \in 1..Len(list) :
     ~\E n \in MapWithSurface(map) : SameParcel(list[i].parcelle, n)}

\* C16: the deliveries whose parcel has no surface, a surface of 0 or a
\* name that matches no parcel count in the delivery count and the weight
\* sums; the global yield is the one of the other deliveries over the
\* surface of the other parcels, null when no parcel has a surface; and the
\* yield of their bucket, of their row, of the card and of the PDF card of
\* such a parcel is null.
NoSurfaceMeansNoYield ==
  /\ livCalc.by # "none" =>
       LET list == livCalc.list
           map == livCalc.parcelles
           others == (1..Len(list)) \ WithoutSurface(list, map)
       IN /\ stats.totalLivraisons = Len(list)
          /\ stats.totalPoidsSec = ColumnSum(list, "poids_sec", 1..Len(list))
          /\ stats.totalEntrees = EntreesOf(list)
          /\ IsYield(stats.moyenneRendement, EntreesAt(list, others), SurfaceOfMap(map))
          /\ MapWithSurface(map) = {} => stats.moyenneRendement = NullNum
          /\ \A i \in WithoutSurface(list, map) :
               /\ BucketName(list[i]) \in DOMAIN statsParcelle
               /\ BucketName(list[i]) \notin {Autres, otherLabel} =>
                    statsParcelle[BucketName(list[i])].rendement = NullNum
  /\ \A i \in WithoutSurface(livraisons, parcelles) :
       (Truthy(livraisons[i].parcelle) /\ livraisons[i].parcelle \notin {Autres, otherLabel}) =>
         CalculateRendement(parcelles, Or0(livraisons[i].poids_sec), livraisons[i].parcelle)
           = NullNum
  /\ dashComputed =>
       /\ totalStats.totalEntrees = EntreesOf(filteredLivraisons)
       /\ DashWithSurface = {} => totalStats.rendementGlobal = NullNum
  /\ \A i \in 1..Len(dbParcelles) :
       (i \notin DashWithSurface) =>
         /\ (~cardStats[i].isLoading /\ cardStats[i].stats # NullNum) =>
              cardStats[i].stats.rendement = NullNum
         /\ pdf.exported => pdf.cards[i].rendement = NullNum

\* North has no usable surface and South has 3 ha: the entries of both
\* count in the totals, the yield is 400 / 1000 / 3 and North has no yield
NoSurfaceWitness ==
  /\ livCalc.by = "fetch"
  /\ "North" \in DOMAIN livCalc.parcelles /\ "North" \notin MapWithSurface(livCalc.parcelles)
  /\ stats.totalEntrees = 1400
  /\ stats.moyenneRendement = [num |-> 2, den |-> 15]
  /\ "North" \in DOMAIN statsParcelle /\ statsParcelle["North"].rendement = NullNum

\* the deliveries of the worked example
IsExampleList(list) ==
  /\ Len(list) = 2
  /\ \E i, j \in 1..2 :
       /\ IsEntree(list[i]) /\ list[i].poids_sec = 1000 /\ list[i].poids_brut = 1100
       /\ list[i].humidite = 18 /\ list[i].parcelle = "North" /\ list[i].date_pesee = 0
       /\ IsSortie(list[j]) /\ list[j].poids_sec = 400 /\ list[j].poids_brut = 420
       /\ list[j].humidite = Null /\ list[j].parcelle = "North"
       /\ list[j].date_pesee = DayStart(1)

\* C17: for the entry (dry 1000, gross 1100, humidity 18) and the exit
\* (dry 400, gross 420, no humidity) of parcel North, active with 2 ha, the
\* totals are entries 1000, exits 400, balance 600, yield 0.5 t/ha and
\* weighted humidity 18, on the dashboard and on the deliveries page.
ExampleTotals ==
  /\ (dashComputed /\ IsExampleList(filteredLivraisons)) =>
       /\ totalStats.totalEntrees = 1000
       /\ totalStats.totalSorties = 400
       /\ totalStats.balance = 600
       /\ totalStats.rendementGlobal = [num |-> 1, den |-> 2]
       /\ totalStats.moyenneHumidite = [num |-> 18, den |-> 1]
  /\ (livCalc.by # "none" /\ IsExampleList(livCalc.list)
      /\ SurfaceOf(livCalc.parcelles, "North") = 2) =>
       /\ stats.totalEntrees = 1000
       /\ stats.totalSorties = 400
       /\ stats.balance = 600
       /\ stats.moyenneRendement = [num |-> 1, den |-> 2]
       /\ stats.moyenneHumidite = [num |-> 18, den |-> 1]

\* the deliveries page has computed the stats of the example from the
\* response of fetchFilteredData, with the parcel map loaded
ExampleWitness ==
  /\ livCalc.by = "fetch" /\ IsExampleList(livCalc.list)
  /\ SurfaceOf(livCalc.parcelles, "North") = 2
  /\ stats.balance = 600

\* the path of the last call of t resolves to no value in the dictionary
\* of its language: a top-level or a nested key is missing
KeyIsMissing ==
  /\ translated.called
  /\ Reduce(Split(translated.path.chars), translated.dictionary) = Undefined

GetDictionaryFallsBackAndCaches ==
  /\ \A lang \in LanguageCodes :
       TruthyValue(dictionaryCache[lang]) =>
         lang \in Languages /\ dictionaryCache[lang] = Dictionaries[lang]
  /\ got.called =>
       /\ (/\ got.lang # "fr"
           /\ ~TruthyValue(dictionaries[got.lang])
           /\ TruthyValue(dictionaries["fr"]))
            => (~got.raised /\ got.value = Dictionaries["fr"])
       /\ got.raised => ~TruthyValue(dictionaries["fr"])
       /\ got.cached =>
            /\ ~got.raised
            /\ got.value = got.before[got.lang]
            /\ got.value = Dictionaries[got.lang]
            /\ dictionaryCache = got.before

\* German has no dictionary and English was loaded before: the call for
\* German returns the French dictionary
GetDictionaryWitness ==
  /\ got.called
  /\ got.lang = "de"
  /\ dictionaries["de"] = Undefined
  /\ ~got.raised
  /\ got.value = Dictionaries["fr"]
  /\ TruthyValue(dictionaryCache["en"])


\* C22: the selected language persists: once the mount effect of a
\* LanguageProvider has run, the language is the one of the last
\* setLanguage(l), also on a fresh mount that follows it; and with a storage
\* that holds no value, or a value that is no available language, the
\* language is the default 'fr'.
SelectedLanguagePersists ==
  /\ (providerLoaded /\ selected.lang # NullStr) => language = selected.lang
  /\ storage \notin Languages => language = "fr"

\* German was selected, the provider was mounted afresh after that, and its
\* effect has set German again
SelectedLanguageWitness ==
  /\ providerLoaded
  /\ selected.lang = "de"
  /\ selected.remounted
  /\ language = "de"


StatsPathsAgree ==
  /\ livCalc.by = "initial" =>
       /\ stats = LivStats(livCalc.list, livCalc.parcelles, otherLabel)
       /\ statsParcelle = LivStatsParcelle(livCalc.list, livCalc.parcelles)
  /\ livCalc.by = "fetch" =>
       /\ stats = CalculateInitialStats(livCalc.list, livCalc.parcelles, otherLabel)
       /\ statsParcelle = LivStatsParcelle(livCalc.list, livCalc.parcelles)


\* C24: when saveEdit completes, edit mode is left (editingRow = null,
\* editingValue = '') if and only if the backend update succeeded; when the
\* update returns an error or throws, editingRow and editingValue keep
\* their values; in every case updating is false again; and a value that is
\* empty after trimming is saved as 'Autres'.
SaveEditLeavesEditModeOnSuccess ==
  [][/\ \A outcome \in {"ok", "error", "throw"} :
          UpdateParcelleInDatabase(outcome) =>
            /\ updating' = FALSE
            /\ (outcome = "ok") <=> (editingRow' = Null /\ editingValue' = <<>>)
            /\ (outcome # "ok") => (editingRow' = editingRow /\ editingValue' = editingValue)
            /\ (outcome = "ok") =>
                 \A i \in 1..Len(dbLivraisons') :
                   dbLivraisons'[i].id = Head(updateCalls).livraisonId
                     => dbLivraisons'[i].parcelle = Head(updateCalls).newParcelle
     /\ SaveEdit =>
          LET call == updateCalls'[Len(updateCalls')]
          IN /\ call.livraisonId = editingRow
             /\ (\A i \in 1..Len(editingValue) : editingValue[i] = " ")
                  => call.newParcelle = "Autres"
             /\ (\E i \in 1..Len(editingValue) : editingValue[i] # " ")
                  => \E i \in 1..Len(editingValue) : call.newParcelle = editingValue[i]
    ]_vars

\* a save of a blank value has failed: the row is still in edit mode with
\* its blank value and updating is over
SaveEditWitness ==
  /\ saved.called
  /\ ~saved.success
  /\ saved.newParcelle = "Autres"
  /\ editingRow = saved.livraisonId
  /\ editingValue = <<" ">>
  /\ ~updating

\* C25: when the backend update of updateParcelleInDatabase(id, p)
\* succeeds, the local delivery list keeps its length and order and changes
\* only in the parcelle field of the delivery whose id is id; when the
\* update fails, the local list is unchanged and no refetch is started.
UpdateChangesOnlyTheParcelle ==
  [][\A outcome \in {"ok", "error", "throw"} :
       UpdateParcelleInDatabase(outcome) =>
         LET call == Head(updateCalls)
         IN IF outcome = "ok"
              THEN /\ Len(livraisons') = Len(livraisons)
                   /\ \A i \in 1..Len(livraisons) :
                        /\ livraisons[i].id # call.livraisonId => livraisons'[i] = livraisons[i]
                        /\ livraisons[i].id = call.livraisonId =>
                             /\ livraisons'[i].parcelle = call.newParcelle
                             /\ [livraisons'[i] EXCEPT !.parcelle = livraisons[i].parcelle]
                                  = livraisons[i]
              ELSE livraisons' = livraisons /\ pending' = pending
    ]_vars

\* an update of one delivery of a list of two has succeeded: that delivery
\* has its new parcel and the other delivery is as before
UpdateWitness ==
  /\ saved.called
  /\ saved.success
  /\ Len(saved.before) = 2
  /\ Len(livraisons) = 2
  /\ \E i \in 1..2 :
       /\ saved.before[i].id = saved.livraisonId
       /\ saved.before[i].parcelle # saved.newParcelle
       /\ livraisons[i] = [saved.before[i] EXCEPT !.parcelle = saved.newParcelle]
       /\ livraisons[3 - i] = saved.before[3 - i]

\* C26: on the deliveries page, loading is true whenever at least one
\* fetchFilteredData call is in flight, for every interleaving of
\* overlapping calls (auto-fetch, Refresh, refetch after an edit), and is
\* false only when no call remains in flight.
LoadingWhileInFlight ==
  (page = "livraisons" /\ mounted) => (loading <=> Len(pending) > 0)


\* the rows that the last PATCH request has modified
ModifiedRows == {i \in 1..Len(parcellesTable) : parcellesTable[i] # patched.before[i]}

\* the updates issued modify only rows with the id of one of the parcels of
\* the body and client_local_id = clientLocalId
UpdatesAreRestricted ==
  \A i \in ModifiedRows :
    /\ \E j \in 1..Len(patched.body.parcelles) :
         patched.body.parcelles[j].id = parcellesTable[i].id
    /\ parcellesTable[i].client_local_id = patched.body.clientLocalId

====
